---- MODULE Spec2Model ----
(***************************************************************************)
(* A model of the crawl scheduler, the login verifier and the element      *)
(* resolver of a11y-test-mate, in its two Selenium variants:               *)
(*   "local" : EnhancedLocalA11yTester        (enhanced-local-selenium.ts) *)
(*   "bs"    : EnhancedBrowserStackA11yTester (enhanced-browserstack-      *)
(*             selenium.ts)                                                *)
(* The browser driver and the axe analysis are external: every driver call *)
(* either answers or throws, and the page a navigation lands on and the    *)
(* hrefs a page shows are whatever the site presents.                      *)
(***************************************************************************)
EXTENDS Integers, Sequences, FiniteSets, TLC

(***************************************************************************)
(* Bounds of the model.                                                    *)
(***************************************************************************)
MaxLinks == 2
MaxPagesBound == 3
\* The bound of the deep-site specification.
DeepPagesBound == 5

(***************************************************************************)
(* URLs of the site under test.  A URL is a path together with its query   *)
(* string or fragment, which is empty when it has none.                    *)
(***************************************************************************)
Paths == {"/", "/about"}
Urls == [path : Paths, q : {"", "?x=1"}]
Variants == {"local", "bs"}

\* The placeholder value of loginConfig.postLoginUrl that means auto-detect.
\* It is no URL of the site under test; neither is the absent URL.
DefaultPostLoginUrl == [path |-> "https://example.com/dashboard", q |-> ""]
NoUrl == [path |-> "undefined", q |-> ""]
\* The absent loginConfig, and the login result before login() has returned.
NoLogin == [configured |-> FALSE, postLoginUrl |-> NoUrl]
NoResult == [returned |-> FALSE, success |-> FALSE, currentUrl |-> NoUrl]

\* The deepest level the crawl is documented to reach.
MaxDepth == 3

\* A URL without its query string and fragment.
Normalize(u) == [u EXCEPT !.q = ""]

\* The page the site redirects to.
HomeUrl == [path |-> "/", q |-> ""]

\* The URLs driver.getCurrentUrl() may report after driver.get(u), on a site
\* that redirects and on one that does not.
Land(u, redirects) == IF redirects THEN {u, HomeUrl} ELSE {u}

\* The priority score of a URL: higher for a path with a content-value keyword.
calculateUrlPriority(u) == IF u.path = "/about" THEN 1 ELSE 0

RECURSIVE Dedupe(_)
Dedupe(s) ==
  IF s = <<>> THEN <<>>
  ELSE LET r == Dedupe(SubSeq(s, 1, Len(s) - 1))
           x == s[Len(s)]
       IN IF \E i \in 1 .. Len(r) : r[i] = x THEN r ELSE Append(r, x)

\* getInternalLinks: the links of the current page, given its hrefs.
getInternalLinksLocal(hrefs) == Dedupe([i \in 1 .. Len(hrefs) |-> Normalize(hrefs[i])])

getInternalLinksBS(hrefs) == Dedupe(hrefs)

getInternalLinks(v, hrefs) ==
  IF v = "local" THEN getInternalLinksLocal(hrefs) ELSE getInternalLinksBS(hrefs)

\* The href lists a page may show.
HrefLists == UNION {[1 .. n -> Urls] : n \in 0 .. MaxLinks}

\* A deep site: more pages, each with at most one link, no query strings.
DeepUrls == [path : {"/", "/a", "/a/b", "/a/b/c", "/a/b/c/d"}, q : {""}]
DeepHrefLists == UNION {[1 .. n -> DeepUrls] : n \in 0 .. 1}

VARIABLES
  variant,        \* which tester class runs
  maxPages,       \* the maxPages argument of crawlAndTest
  startUrl,       \* the startUrl argument of crawlAndTest
  loginConfig,    \* NoLogin, or the login configuration with its postLoginUrl
  pc,             \* where crawlAndTest is
  loginResult,    \* what login() returned
  verifiedUrl,    \* the URL of the browser when the verification ended
  crawlStartUrl,  \* the URL the crawl starts from
  results,        \* the result sequence
  visited,        \* the visited set
  queue,          \* the frontier: URLs with the depth they were found at
  tested,         \* the URLs navigated to, in order
  lastError       \* the error crawlAndTest rejected with

VARIABLES
  vpc,            \* the state of the login verifier
  vconfig,        \* loginUrl and postLoginUrl of the login configuration
  vpage,          \* the page the browser shows after submit
  vsignals,       \* the verification signals as evaluated
  verdict         \* what verifyLoginSuccess returned

crawlVars == <<variant, maxPages, startUrl, loginConfig, pc, loginResult, verifiedUrl,
               crawlStartUrl, results, visited, queue, tested, lastError>>

verifyVars == <<vpc, vconfig, vpage, vsignals, verdict>>

VARIABLES
  role,               \* elementType
  providedSelectors,  \* the selectors login() hands over
  dom,                \* the page the driver looks at
  rpc,                \* where findElementByMultipleStrategies stands
  consulted,          \* the tiers run so far, each with whether it hit
  found,              \* the element returned: its position in dom, or 0
  lookupFailed,       \* a lookup threw during this resolution
  rerror              \* the error findElementByMultipleStrategies threw

resolveVars == <<role, providedSelectors, dom, rpc, consulted, found,
                 lookupFailed, rerror>>

VARIABLES
  wpc,               \* where waitForDynamicContent stands
  wclock,            \* Date.now(), in units of checkInterval
  polls,             \* the polls of the page made so far
  stabilityStart,    \* BrowserStack variant: since when the page is stable
  lastElementCount,  \* BrowserStack variant: the element count last seen
  stableCount,       \* local variant: the polls without a change
  lastBodyContent,   \* local variant: the body length last seen
  wi,                \* local variant: the index of the stability loop
  wreport,           \* BrowserStack variant: what the waiter logged when it returned
  windowDirty        \* BrowserStack variant: a poll since stabilityStart saw the page loading

waitVars == <<wpc, wclock, polls, stabilityStart, lastElementCount,
              stableCount, lastBodyContent, wi, wreport, windowDirty>>

VARIABLES
  spc,            \* where the scoring of the candidates stands
  sElementType,   \* the elementType scoreElement is called with
  numInputs,      \* how many input elements the page has
  numCands,       \* how many candidates findCandidateElements scores
  cand,           \* the candidate being scored
  inFlight        \* the driver operations issued and not yet completed

scoreVars == <<spc, sElementType, numInputs, numCands, cand, inFlight>>

\* No candidate is being scored.
ScoreIdle ==
  /\ spc = "off"
  /\ sElementType = "none"
  /\ numInputs = 0
  /\ numCands = 0
  /\ cand = 0
  /\ inFlight = {}

VARIABLES
  lpc,            \* where login() and its caller stand
  lstep,          \* the step of login() that runs next
  lselectors,     \* the roles loginConfig gives a selector for
  lcurrentUrl,    \* the currentUrl login() read after submit
  caught,         \* the error the catch block of login() caught
  lresult,        \* what login() returned
  callerError     \* the error crawlAndTest rejected with

loginVars == <<lpc, lstep, lselectors, lcurrentUrl, caught, lresult, callerError>>

\* An Error, its message in parts; and no error.
Error(parts) == [message |-> parts]

NoError == Error(<<>>)

\* login() is not running.
LoginIdle ==
  /\ lpc = "off"
  /\ lstep = 0
  /\ lselectors = {}
  /\ lcurrentUrl = NoUrl
  /\ caught = NoError
  /\ lresult = NoResult
  /\ callerError = NoError

VARIABLES
  runner,         \* which main execution function runs
  rnpc,           \* where it stands
  rnLogin,        \* whether options.loginConfig is given
  nPages,         \* the pages the test step goes through
  pagesTested,    \* the pages tested so far
  driverSet,      \* tester.driver is set: a session was opened
  pending,        \* the error the function is about to reject with
  closeCalls,     \* the calls of tester.close()
  quitCalls,      \* the calls of driver.quit()
  ended         \* how the function ended

runVars == <<runner, rnpc, rnLogin, nPages, pagesTested, driverSet, pending, closeCalls, quitCalls, ended>>

\* No main execution function runs.
RunIdle ==
  /\ runner = "none"
  /\ rnpc = "off"
  /\ rnLogin = FALSE
  /\ nPages = 0
  /\ pagesTested = 0
  /\ driverSet = FALSE
  /\ pending = "none"
  /\ closeCalls = 0
  /\ quitCalls = 0
  /\ ended = "none"

VARIABLES
  mpc,            \* where testMultipleUrls stands
  mConnected,     \* whether connect() has set the driver
  mUrls,          \* the urls argument
  mTested,        \* the URLs testUrl went to, each with what happened
  mResults        \* the results array

multiVars == <<mpc, mConnected, mUrls, mTested, mResults>>

\* testMultipleUrls is not running.
MultiIdle ==
  /\ mpc = "off"
  /\ mConnected = FALSE
  /\ mUrls = <<>>
  /\ mTested = <<>>
  /\ mResults = <<>>

VARIABLES
  ppc,            \* where the crawlAndTest of main.ts stands
  psite,          \* the site: the same-origin links of each page
  pqueue,         \* its queue
  pvisited,       \* its visited set
  presults        \* its results array

pwVars == <<ppc, psite, pqueue, pvisited, presults>>

\* The crawl of main.ts is not running.
PwIdle ==
  /\ ppc = "off"
  /\ psite = <<>>
  /\ pqueue = <<>>
  /\ pvisited = {}
  /\ presults = <<>>

VARIABLES
  tpc,            \* where the testing of the pages stands
  tn,             \* how many pages the session goes to
  tk,             \* the page at hand: 1 is the crawl start page
  tstep,          \* the call of the page at hand that comes next
  tlog,           \* the calls completed for the page at hand
  tAnalyses       \* for every analysis invoked: the calls completed before it

pageVars == <<tpc, tn, tk, tstep, tlog, tAnalyses>>

\* No page is being tested.
PageIdle ==
  /\ tpc = "off"
  /\ tn = 0
  /\ tk = 0
  /\ tstep = 0
  /\ tlog = <<>>
  /\ tAnalyses = <<>>

VARIABLES
  kpc,            \* where getInternalLinks is
  kbase,          \* its baseUrl argument: the crawl start URL
  khrefs,         \* the href of every a[href] element of the current page
  klinks          \* the links it returned

linksVars == <<kpc, kbase, khrefs, klinks>>

\* getInternalLinks is not running.
LinksIdle ==
  /\ kpc = "off"
  /\ kbase = 0
  /\ khrefs = <<>>
  /\ klinks = <<>>

VARIABLES
  epc,            \* where scoreElement is
  eType,          \* its elementType argument
  eSelector,      \* its selector argument
  eInputs,        \* how many input elements the page has
  ePosition,      \* the place of the candidate among them, from 0; -1 for none
  eSeen,          \* what each lookup of scoreElement answered
  eScore          \* the score so far, and the score returned

scoringVars == <<epc, eType, eSelector, eInputs, ePosition, eSeen, eScore>>

\* scoreElement is not running.
ScoringIdle ==
  /\ epc = "off"
  /\ eType = ""
  /\ eSelector = ""
  /\ eInputs = 0
  /\ ePosition = 0
  /\ eSeen = <<>>
  /\ eScore = 0

VARIABLES
  gpc,            \* where findCandidateElements stands
  gfinds,         \* what findElements answers for each smart strategy
  gvalid,         \* whether validateElement passes each element of the page
  gk,             \* the smart strategy at hand
  gi,             \* the element of the page at hand
  gcands,         \* the candidates pushed so far, in the order pushed
  gbest           \* the element the smart tier returned, 0 for none

smartVars == <<gpc, gfinds, gvalid, gk, gi, gcands, gbest>>

\* findCandidateElements is not running.
SmartIdle ==
  /\ gpc = "off"
  /\ gfinds = <<>>
  /\ gvalid = <<>>
  /\ gk = 0
  /\ gi = 0
  /\ gcands = <<>>
  /\ gbest = 0

vars == <<crawlVars, verifyVars, resolveVars, waitVars, scoreVars, loginVars, runVars, multiVars, pwVars, pageVars, linksVars, scoringVars, smartVars>>

\* What the verifier, the resolver and the stability waiter leave alone.
notVerifyVars == <<crawlVars, resolveVars, waitVars, scoreVars, loginVars, runVars, multiVars, pwVars, pageVars, linksVars, scoringVars, smartVars>>
notResolveVars == <<crawlVars, verifyVars, waitVars, scoreVars, loginVars, runVars, multiVars, pwVars, pageVars, linksVars, scoringVars, smartVars>>
notWaitVars == <<crawlVars, verifyVars, resolveVars, scoreVars, loginVars, runVars, multiVars, pwVars, pageVars, linksVars, scoringVars, smartVars>>

notScoreVars == <<crawlVars, verifyVars, resolveVars, waitVars, loginVars, runVars, multiVars, pwVars, pageVars, linksVars, scoringVars, smartVars>>

notLoginVars == <<crawlVars, verifyVars, resolveVars, waitVars, scoreVars, runVars, multiVars, pwVars, pageVars, linksVars, scoringVars, smartVars>>

notRunVars == <<crawlVars, verifyVars, resolveVars, waitVars, scoreVars, loginVars, multiVars, pwVars, pageVars, linksVars, scoringVars, smartVars>>

notMultiVars == <<crawlVars, verifyVars, resolveVars, waitVars, scoreVars, loginVars, runVars, pwVars, pageVars, linksVars, scoringVars, smartVars>>

notPwVars == <<crawlVars, verifyVars, resolveVars, waitVars, scoreVars, loginVars, runVars, multiVars, pageVars, linksVars, scoringVars, smartVars>>

notPageVars == <<crawlVars, verifyVars, resolveVars, waitVars, scoreVars, loginVars, runVars, multiVars, pwVars, linksVars, scoringVars, smartVars>>

notLinksVars == <<crawlVars, verifyVars, resolveVars, waitVars, scoreVars, loginVars, runVars, multiVars, pwVars, pageVars, scoringVars, smartVars>>

notScoringVars == <<crawlVars, verifyVars, resolveVars, waitVars, scoreVars, loginVars, runVars, multiVars, pwVars, pageVars, linksVars, smartVars>>

notSmartVars == <<crawlVars, verifyVars, resolveVars, waitVars, scoreVars, loginVars, runVars, multiVars, pwVars, pageVars, linksVars, scoringVars>>

\* What a crawl leaves alone.
notCrawlVars == <<verifyVars, resolveVars, waitVars, scoreVars, loginVars, runVars, multiVars, pwVars, pageVars, linksVars, scoringVars, smartVars>>

PostLoginUrls == {NoUrl, DefaultPostLoginUrl, [path |-> "/about", q |-> ""]}

CrawlInit ==
  /\ variant \in Variants
  /\ maxPages \in 0 .. MaxPagesBound
  /\ startUrl \in {HomeUrl, [path |-> "/", q |-> "?x=1"]}
  /\ loginConfig \in {NoLogin} \cup [configured : {TRUE}, postLoginUrl : PostLoginUrls]
  /\ pc = "idle"
  /\ loginResult = NoResult
  /\ verifiedUrl = NoUrl
  /\ crawlStartUrl = startUrl
  /\ results = <<>>
  /\ visited = {}
  /\ queue = <<>>
  /\ tested = <<>>
  /\ lastError = "none"

\* A failed result as the catch blocks build it, and a result of testCurrentPage.
FailedResult(u) == [url |-> u, success |-> FALSE]

TestResult(u, ok) == [url |-> u, success |-> ok]

\* Every link of a page goes to the frontier.
NewEntriesUnfiltered(links, vis, d) ==
  [i \in 1 .. Len(links) |-> [url |-> links[i], depth |-> d]]

\* The links of a page that go to the frontier: those not visited.
NewEntries(links, vis, d) ==
  LET NotVisited(l) == l \notin vis
      kept == SelectSeq(links, NotVisited)
  IN [i \in 1 .. Len(kept) |-> [url |-> kept[i], depth |-> d]]

\* crawlAndTest, "Determine the URL to start crawling from".
StartUrlAfterLogin(cfg, res, start) ==
  IF cfg.postLoginUrl # NoUrl /\ cfg.postLoginUrl # DefaultPostLoginUrl
  THEN cfg.postLoginUrl
  ELSE IF res.currentUrl # NoUrl THEN res.currentUrl ELSE start

\* crawlAndTest without the check of loginResult.success.
LoginAllowsCrawlAlways(res) == TRUE

\* Whether crawlAndTest goes on after login() returned res.
LoginAllowsCrawl(res) == res.success

\* What login() may return: success with the URL it read after submit, or
\* failure with that URL or, when a step threw, without one.
LoginResults ==
  [returned : {TRUE}, success : {TRUE}, currentUrl : {HomeUrl, [path |-> "/about", q |-> "?x=1"]}]
  \cup [returned : {TRUE}, success : {FALSE}, currentUrl : {NoUrl, HomeUrl}]

\* Where the browser may be when verifyLoginSuccess ends, login() having read
\* currentUrl before calling it: the page may navigate in between.
UrlsAfterVerification(res) ==
  IF res.success THEN {res.currentUrl, [path |-> "/about", q |-> ""]}
  ELSE {res.currentUrl}

\* crawlAndTest with a login configuration: login() runs first.
Login ==
  /\ pc = "idle"
  /\ loginConfig.configured
  /\ \E res \in LoginResults :
       /\ loginResult' = res
       /\ verifiedUrl' \in UrlsAfterVerification(res)
       /\ IF LoginAllowsCrawl(res)
          THEN /\ crawlStartUrl' = StartUrlAfterLogin(loginConfig, res, startUrl)
               /\ pc' = "start"
               /\ lastError' = lastError
          ELSE /\ crawlStartUrl' = crawlStartUrl
               /\ pc' = "failed"
               /\ lastError' = "Login failed - cannot proceed with crawling"
  /\ UNCHANGED <<variant, maxPages, startUrl, loginConfig, results, visited,
                 queue, tested>>
  /\ UNCHANGED notCrawlVars

\* crawlAndTest without a login configuration.
SkipLogin ==
  /\ pc = "idle"
  /\ ~loginConfig.configured
  /\ pc' = "start"
  /\ UNCHANGED <<variant, maxPages, startUrl, loginConfig, loginResult, verifiedUrl,
                 crawlStartUrl, results, visited, queue, tested, lastError>>
  /\ UNCHANGED notCrawlVars

\* What the driver does with one page: driver.get throws; testCurrentPage
\* analyses the page; the analysis throws and testCurrentPage catches it; or
\* the getCurrentUrl in that catch block throws too.
PageOutcomes == {"ok", "testFailed", "navThrows", "testThrows"}

Throws(o) == o \in {"navThrows", "testThrows"}

\* What a failure of the navigation to, or of the test of, the crawl start
\* page does: both happen outside any try block, so crawlAndTest rejects.
StartPageFailure(res) == [abort |-> TRUE, results |-> res]

\* Navigate to the crawl start URL, test it, and discover its links.
StartPageOn(H, O, redirects) ==
  /\ pc = "start"
  /\ tested' = Append(tested, crawlStartUrl)
  /\ \/ /\ \E o \in O : Throws(o)
        /\ LET f == StartPageFailure(results)
           IN /\ pc' = IF f.abort THEN "failed" ELSE "crawling"
              /\ lastError' = IF f.abort THEN "driver error" ELSE lastError
              /\ results' = f.results
              /\ UNCHANGED <<visited, queue>>
     \/ \E o \in {x \in O : ~Throws(x)}, land \in Land(crawlStartUrl, redirects),
           hrefs \in H :
          /\ results' = Append(results, TestResult(land, o = "ok"))
          /\ visited' = visited \cup {land}
          /\ queue' = queue \o NewEntries(getInternalLinks(variant, hrefs),
                                          visited', 1)
          /\ pc' = "crawling"
          /\ lastError' = lastError
  /\ UNCHANGED <<variant, maxPages, startUrl, loginConfig, loginResult, verifiedUrl,
                 crawlStartUrl>>
  /\ UNCHANGED notCrawlVars

\* A loop that goes on while the budget is met but not exceeded.
LoopGuardOffByOne == queue # <<>> /\ Len(results) <= maxPages

\* The condition of the crawl loop.
LoopGuard == queue # <<>> /\ Len(results) < maxPages

\* The frontier entry the loop takes next: queue.shift().
NextEntry(q) == Head(q)

\* A loop that reads the head of the frontier and leaves it there.
ShiftedKeepsHead(q) == q

\* The frontier after queue.shift().
Shifted(q) == Tail(q)

\* A catch block that reports the failure and records no result.
PushFailedResultDropped(res, u) == res

\* The catch block of the crawl loop: results.push({ url: nextUrl, ...,
\* success: false, error }).
PushFailedResult(res, u) == Append(res, FailedResult(u))

\* One iteration of the crawl loop.
CrawlStepOn(H, O, redirects) ==
  /\ pc = "crawling"
  /\ LoopGuard
  /\ LET next == NextEntry(queue)
         rest == Shifted(queue)
     IN IF next.url \in visited
        THEN /\ queue' = rest
             /\ UNCHANGED <<results, visited, tested>>
        ELSE /\ visited' = visited \cup {next.url}
             /\ tested' = Append(tested, next.url)
             /\ \/ /\ \E o \in O : Throws(o)
                   /\ results' = PushFailedResult(results, next.url)
                   /\ queue' = rest
                \/ \E o \in {x \in O : ~Throws(x)}, land \in Land(next.url, redirects) :
                     /\ results' = Append(results, TestResult(land, o = "ok"))
                     /\ IF Len(results') < maxPages
                        THEN \E hrefs \in H :
                               queue' = rest \o NewEntries(getInternalLinks(variant, hrefs),
                                                           visited', next.depth + 1)
                        ELSE queue' = rest
  /\ UNCHANGED <<variant, maxPages, startUrl, loginConfig, pc, loginResult, verifiedUrl,
                 crawlStartUrl, lastError>>
  /\ UNCHANGED notCrawlVars

\* The loop ends and crawlAndTest returns the results.
Finish ==
  /\ pc = "crawling"
  /\ ~LoopGuard
  /\ pc' = "done"
  /\ UNCHANGED <<variant, maxPages, startUrl, loginConfig, loginResult, verifiedUrl,
                 crawlStartUrl, results, visited, queue, tested, lastError>>
  /\ UNCHANGED notCrawlVars

StartPage == StartPageOn(HrefLists, PageOutcomes, TRUE)

CrawlStep == CrawlStepOn(HrefLists, PageOutcomes, TRUE)

CrawlNext == Login \/ SkipLogin \/ StartPage \/ CrawlStep \/ Finish

\* The locals of a call that keeps what the last call left.
KeptLocals == [results |-> results, visited |-> visited, queue |-> queue]

\* The locals of crawlAndTest as a call creates them: the result sequence,
\* the visited set and the frontier.
FreshLocals == [results |-> <<>>, visited |-> {}, queue |-> <<>>]

\* crawlAndTest is called again on the same tester, after the last call
\* returned or rejected.
CallAgain ==
  /\ pc \in {"done", "failed"}
  /\ pc' = "idle"
  /\ maxPages' \in 0 .. MaxPagesBound
  /\ startUrl' \in {HomeUrl, [path |-> "/", q |-> "?x=1"]}
  /\ crawlStartUrl' = startUrl'
  /\ loginResult' = NoResult
  /\ verifiedUrl' = NoUrl
  /\ results' = FreshLocals.results
  /\ visited' = FreshLocals.visited
  /\ queue' = FreshLocals.queue
  /\ tested' = <<>>
  /\ lastError' = "none"
  /\ UNCHANGED <<variant, loginConfig>>
  /\ UNCHANGED notCrawlVars

SessionsNext == CrawlNext \/ CallAgain

DeepStartPage == StartPageOn(DeepHrefLists, {"ok", "testFailed"}, FALSE)

DeepCrawlStep == CrawlStepOn(DeepHrefLists, {"ok", "navThrows"}, FALSE)

DeepNext == SkipLogin \/ DeepStartPage \/ DeepCrawlStep \/ Finish

\* A start page with ten on-site links, none of them to itself.
TenLinks ==
  <<[path |-> "/p1", q |-> ""], [path |-> "/p2", q |-> ""],
    [path |-> "/p3", q |-> ""], [path |-> "/p4", q |-> ""],
    [path |-> "/p5", q |-> ""], [path |-> "/p6", q |-> ""],
    [path |-> "/p7", q |-> ""], [path |-> "/p8", q |-> ""],
    [path |-> "/p9", q |-> ""], [path |-> "/p10", q |-> ""]>>

\* What the pages behind the ten links may link to.
TenSiteHrefLists ==
  {<<>>, <<HomeUrl>>, <<[path |-> "/p1", q |-> ""], [path |-> "/p11", q |-> ""]>>}

\* The budgets tried on the ten-link site.
TenSiteBudgets == {1, 2, 3, 4}

TenStartPage == StartPageOn({TenLinks}, {"ok", "testFailed"}, FALSE)

TenCrawlStep == CrawlStepOn(TenSiteHrefLists, PageOutcomes, TRUE)

TenNext == SkipLogin \/ TenStartPage \/ TenCrawlStep \/ Finish

(***************************************************************************)
(* The login verifier: verifyLoginSuccess and the checks it combines.      *)
(***************************************************************************)

\* The URLs the verifier sees: a host name, a path and a query string.
VUrls == [domain : {"login.ex.com", "app.ex.com"},
          path : {"/login", "/user/login", "/dashboard", "/signup", "/news"},
          q : {"", "?token=1"}]
VNoUrl == [domain |-> "", path |-> "undefined", q |-> ""]
LoginUrls == {[domain |-> "login.ex.com", path |-> "/login", q |-> ""],
              [domain |-> "login.ex.com", path |-> "/user/login", q |-> ""]}
VPostLoginUrls == {VNoUrl,
                   [domain |-> "login.ex.com", path |-> "/dashboard", q |-> ""],
                   [domain |-> "login.ex.com", path |-> "/user", q |-> ""]}

\* String.prototype.includes on the strings of the model: <<s, t>> is listed
\* when t is a proper substring of s.
Substrings == {<<"/login", "login">>, <<"/user/login", "login">>,
               <<"/user/login", "/user">>, <<"/signup", "signup">>,
               <<"?token=1", "token">>}

Includes(str, sub) == str = sub \/ <<str, sub>> \in Substrings

\* currentUrl.includes(postLoginUrl), both being URL strings.
UrlIncludesUrl(cur, post) ==
  /\ cur.domain = post.domain
  /\ Includes(cur.path, post.path)
  /\ post.q \in {"", cur.q}

\* currentUrl.includes(word).
UrlIncludesWord(u, w) == Includes(u.path, w) \/ Includes(u.q, w)

LoginWords == {"login", "signin", "auth", "register", "signup"}

postLoginPatterns == {"/dashboard", "/home", "/profile", "/account", "/welcome",
                      "/main", "/session", "/user", "/portal", "/app", "/admin",
                      "/settings", "/overview"}

SuccessWords == {"success", "token", "authenticated", "logged"}

\* verifyUrlChange of the BrowserStack variant.
verifyUrlChange(loginUrl, postLoginUrl, currentUrl) ==
  IF currentUrl.domain # loginUrl.domain
  THEN [success |-> TRUE, reason |-> "Redirected to different domain after login"]
  ELSE IF postLoginUrl # VNoUrl /\ UrlIncludesUrl(currentUrl, postLoginUrl)
  THEN [success |-> TRUE, reason |-> "Redirected to expected post-login URL"]
  ELSE IF /\ currentUrl.path # loginUrl.path
          /\ \A w \in LoginWords : ~Includes(currentUrl.path, w)
  THEN [success |-> TRUE, reason |-> "Navigated away from login page"]
  ELSE IF \E pattern \in postLoginPatterns : Includes(currentUrl.path, pattern)
  THEN [success |-> TRUE, reason |-> "URL contains post-login pattern"]
  ELSE IF currentUrl # loginUrl /\ currentUrl.path # loginUrl.path
  THEN [success |-> TRUE, reason |-> "URL path changed after login attempt"]
  ELSE IF currentUrl # loginUrl /\ \E w \in SuccessWords : UrlIncludesWord(currentUrl, w)
  THEN [success |-> TRUE, reason |-> "URL parameters suggest successful login"]
  ELSE [success |-> FALSE, reason |-> "Still on login page or similar URL"]

\* The kinds of element a page may hold, and the kinds the selector lists of
\* the checks match.
ElementKinds == {"user-avatar", "logout-link", "main-content", "welcome-banner",
                 "error-message", "password-input"}
LoggedInIndicatorKinds == {"user-avatar", "logout-link", "welcome-banner"}
UserElementKinds == {"main-content"}
NavigationKinds == {"logout-link"}
DashboardKinds == {"main-content", "welcome-banner"}
ErrorKinds == {"error-message"}

Titles == {"Login", "Dashboard"}
BodyPhrases == {"welcome", "password"}

Pages == [url : VUrls, elements : SUBSET ElementKinds, title : Titles,
          body : SUBSET BodyPhrases]

\* The driver calls of a verification that may throw, by the check making them.
VerifyCalls == {"getCurrentUrl", "checkLoggedInIndicators", "checkUserElements",
                "checkNavigationChanges", "checkDashboardContent",
                "verifyPageContent", "checkAbsenceOfLoginForm",
                "checkForLoginErrors"}

\* A check that looks for elements: a selector whose findElements throws is
\* skipped.
FindsAny(kinds, page, name, failing) ==
  name \notin failing /\ page.elements \cap kinds # {}

checkLoggedInIndicators(page, failing) ==
  FindsAny(LoggedInIndicatorKinds, page, "checkLoggedInIndicators", failing)

checkUserElements(page, failing) ==
  FindsAny(UserElementKinds, page, "checkUserElements", failing)

checkNavigationChanges(page, failing) ==
  FindsAny(NavigationKinds, page, "checkNavigationChanges", failing)

checkDashboardContent(page, failing) ==
  FindsAny(DashboardKinds, page, "checkDashboardContent", failing)

checkForLoginErrors(page, failing) ==
  FindsAny(ErrorKinds, page, "checkForLoginErrors", failing)

\* What checkAbsenceOfLoginForm answers when findElements throws.
FormAbsentOnError == TRUE

checkAbsenceOfLoginForm(page, failing) ==
  IF "checkAbsenceOfLoginForm" \in failing
  THEN FormAbsentOnError
  ELSE "password-input" \notin page.elements

\* verifyDomChanges of the BrowserStack variant.
verifyDomChanges(page, failing) ==
  \/ checkLoggedInIndicators(page, failing)
  \/ checkUserElements(page, failing)
  \/ checkNavigationChanges(page, failing)

\* verifyPageContent of the BrowserStack variant.
verifyPageContent(page, failing) ==
  IF "verifyPageContent" \in failing THEN FALSE
  ELSE \/ page.title = "Dashboard"
       \/ "welcome" \in page.body
       \/ "password" \notin page.body

\* verifyEnhancedContent of the local variant.
verifyEnhancedContent(page, failing) ==
  \/ checkUserElements(page, failing)
  \/ checkNavigationChanges(page, failing)
  \/ checkDashboardContent(page, failing)

\* A score that weighs the five criteria alike.
calculateLoginSuccessScoreEqualWeights(criteria) ==
  20 * Cardinality({k \in DOMAIN criteria : criteria[k]})

\* calculateLoginSuccessScore of the local variant.
calculateLoginSuccessScore(criteria) ==
  (IF criteria.urlChanged THEN 30 ELSE 0)
  + (IF criteria.contentVerified THEN 25 ELSE 0)
  + (IF criteria.hasErrors THEN 20 ELSE 0)
  + (IF criteria.hasLoggedInIndicators THEN 15 ELSE 0)
  + (IF criteria.loginFormAbsent THEN 10 ELSE 0)

\* The score from which the local variant declares success.
ScoreThreshold == 60

NoSignals == [url |-> FALSE, dom |-> FALSE, content |-> FALSE,
              formAbsent |-> FALSE, noErrors |-> FALSE]

\* A rule that takes one of the three other strategies for enough.
VerdictBSAnyOne(sig) ==
  \/ sig.url
  \/ Cardinality({k \in {"dom", "content", "formAbsent"} : sig[k]}) >= 1

\* The rule of the BrowserStack variant: the URL verification alone, or two
\* of the three other strategies.
VerdictBS(sig) ==
  \/ sig.url
  \/ Cardinality({k \in {"dom", "content", "formAbsent"} : sig[k]}) >= 2

\* verifyLoginSuccess of the BrowserStack variant.
verifyLoginSuccessBS(cfg, page, failing) ==
  IF "getCurrentUrl" \in failing
  THEN [signals |-> NoSignals, verdict |-> FALSE]
  ELSE LET sig == [url |-> verifyUrlChange(cfg.loginUrl, cfg.postLoginUrl, page.url).success,
                   dom |-> verifyDomChanges(page, failing),
                   content |-> verifyPageContent(page, failing),
                   formAbsent |-> checkAbsenceOfLoginForm(page, failing),
                   noErrors |-> FALSE]
       IN [signals |-> sig, verdict |-> VerdictBS(sig)]

\* The rule of the local variant: the weighted score against the threshold.
VerdictLocal(sig) ==
  calculateLoginSuccessScore([urlChanged |-> sig.url,
                              contentVerified |-> sig.content,
                              hasErrors |-> sig.noErrors,
                              hasLoggedInIndicators |-> sig.dom,
                              loginFormAbsent |-> sig.formAbsent]) >= ScoreThreshold

\* verifyLoginSuccess of the local variant.
verifyLoginSuccessLocal(cfg, page, failing) ==
  IF "getCurrentUrl" \in failing
  THEN [signals |-> NoSignals, verdict |-> FALSE]
  ELSE IF cfg.postLoginUrl # VNoUrl /\ UrlIncludesUrl(page.url, cfg.postLoginUrl)
  THEN [signals |-> [NoSignals EXCEPT !.url = TRUE], verdict |-> TRUE]
  ELSE LET sig == [url |-> page.url # cfg.loginUrl,
                   content |-> verifyEnhancedContent(page, failing),
                   noErrors |-> ~checkForLoginErrors(page, failing),
                   dom |-> checkLoggedInIndicators(page, failing),
                   formAbsent |-> checkAbsenceOfLoginForm(page, failing)]
       IN [signals |-> sig, verdict |-> VerdictLocal(sig)]

verifyLoginSuccess(v, cfg, page, failing) ==
  IF v = "local" THEN verifyLoginSuccessLocal(cfg, page, failing)
  ELSE verifyLoginSuccessBS(cfg, page, failing)

\* The sets of driver calls that throw during one verification.
MaxVerifyFailures == 1
FailureSets == {F \in SUBSET VerifyCalls : Cardinality(F) <= MaxVerifyFailures}

\* login() submitted the form: the browser shows some page.
Submit ==
  /\ vpc = "NotAttempted"
  /\ vpage' \in Pages
  /\ vpc' = "Submitted"
  /\ UNCHANGED <<vconfig, vsignals, verdict, notVerifyVars>>

\* login() calls verifyLoginSuccess.
VerifyLoginSuccess ==
  /\ vpc = "Submitted"
  /\ \E failing \in FailureSets :
       LET r == verifyLoginSuccess(variant, vconfig, vpage, failing)
       IN /\ vsignals' = r.signals
          /\ verdict' = r.verdict
          /\ vpc' = IF r.verdict THEN "VerifiedSuccess" ELSE "VerifiedFailure"
  /\ UNCHANGED <<vconfig, vpage, notVerifyVars>>

NoPage == [url |-> VNoUrl, elements |-> {}, title |-> "", body |-> {}]

\* No login attempt is under way.
VerifyIdle ==
  /\ vpc = "Idle"
  /\ vconfig = [loginUrl |-> VNoUrl, postLoginUrl |-> VNoUrl]
  /\ vpage = NoPage
  /\ vsignals = NoSignals
  /\ verdict = FALSE

\* No crawl is under way.
CrawlIdle ==
  /\ maxPages = 0
  /\ startUrl = NoUrl
  /\ loginConfig = NoLogin
  /\ pc = "none"
  /\ loginResult = NoResult
  /\ verifiedUrl = NoUrl
  /\ crawlStartUrl = NoUrl
  /\ results = <<>>
  /\ visited = {}
  /\ queue = <<>>
  /\ tested = <<>>
  /\ lastError = "none"

(***************************************************************************)
(* The stability waiter: waitForDynamicContent.                            *)
(***************************************************************************)

\* The times of the BrowserStack variant, in units of checkInterval.
maxWaitTime == 15
checkInterval == 1
stabilityWindow == 2

\* The iterations of the stability loop of the local variant.
StabilityPolls == 5

\* Date.now() when waitForDynamicContent is entered.
startTime == 1

\* How long an executeScript call may take, in units of checkInterval.
MaxScriptTime == 1

\* What one executeScript call of the BrowserStack variant answers.
ElementCounts == [readyState : {"loading", "complete"}, loadingElements : {0, 1},
                  totalElements : {1, 2}, formWithInputs : BOOLEAN]
ScriptThrows == [readyState |-> "error", loadingElements |-> 0,
                 totalElements |-> 0, formWithInputs |-> FALSE]
ScriptOutcomes == ElementCounts \cup {ScriptThrows}

\* A waiter whose catch block goes on to the next poll at once.
SleepAfterErrorSkipped(now) == now

\* catch (error) { await this.driver.sleep(checkInterval) }
SleepAfterError(now) == now + checkInterval

\* One more poll counted; the count stops one above maxWaitTime.
CountPoll(n) == IF n > maxWaitTime THEN n ELSE n + 1

\* A poll that saw a loading indicator or a ready-state other than complete.
StillLoading(counts) == counts.readyState # "complete" \/ counts.loadingElements > 0

\* One iteration of the while loop of the BrowserStack variant.
PollBS ==
  /\ variant = "bs"
  /\ wpc = "polling"
  /\ wclock - startTime < maxWaitTime
  /\ polls' = CountPoll(polls)
  /\ \E counts \in ScriptOutcomes, d \in 0 .. MaxScriptTime :
       LET now == wclock + d
       IN IF counts = ScriptThrows
          THEN /\ wclock' = SleepAfterError(now)
               /\ UNCHANGED <<wpc, stabilityStart, lastElementCount, wreport, windowDirty>>
          ELSE IF StillLoading(counts)
          THEN \* sleep and continue: stabilityStart is left as it is
               /\ wclock' = now + checkInterval
               /\ windowDirty' = (windowDirty \/ stabilityStart # 0)
               /\ UNCHANGED <<wpc, stabilityStart, lastElementCount, wreport>>
          ELSE IF counts.totalElements # lastElementCount
          THEN /\ lastElementCount' = counts.totalElements
               /\ stabilityStart' = 0
               /\ windowDirty' = FALSE
               /\ wclock' = now + checkInterval
               /\ UNCHANGED <<wpc, wreport>>
          ELSE IF stabilityStart = 0
          THEN /\ stabilityStart' = now
               /\ windowDirty' = FALSE
               /\ wclock' = now + checkInterval
               /\ UNCHANGED <<wpc, lastElementCount, wreport>>
          ELSE IF now - stabilityStart >= stabilityWindow
          THEN IF counts.formWithInputs
               THEN /\ wpc' = "returned"
                    /\ wreport' = "stable"
                    /\ wclock' = now
                    /\ UNCHANGED <<stabilityStart, lastElementCount, windowDirty>>
               ELSE /\ stabilityStart' = 0
                    /\ windowDirty' = FALSE
                    /\ wclock' = now + checkInterval
                    /\ UNCHANGED <<wpc, lastElementCount, wreport>>
          ELSE /\ wclock' = now + checkInterval
               /\ UNCHANGED <<wpc, stabilityStart, lastElementCount, wreport, windowDirty>>
  /\ UNCHANGED <<stableCount, lastBodyContent, wi, notWaitVars>>

\* The while loop ends on the timeout: a warning is logged.
TimeoutBS ==
  /\ variant = "bs"
  /\ wpc = "polling"
  /\ wclock - startTime >= maxWaitTime
  /\ wpc' = "returned"
  /\ wreport' = "timeout"
  /\ UNCHANGED <<wclock, polls, stabilityStart, lastElementCount, stableCount,
                 lastBodyContent, wi, windowDirty, notWaitVars>>

\* driver.wait for readyState complete, of the local variant: it resolves,
\* or it rejects on its timeout or with the exception of the script; the
\* catch block then sleeps and the waiter returns.
WaitReadyLocal ==
  /\ variant = "local"
  /\ wpc = "ready"
  /\ polls' = CountPoll(polls)
  /\ \E outcome \in {"complete", "timeout", "scriptThrows"} :
       wpc' = IF outcome = "complete" THEN "polling" ELSE "returned"
  /\ UNCHANGED <<wclock, stabilityStart, lastElementCount, stableCount,
                 lastBodyContent, wi, wreport, windowDirty, notWaitVars>>

\* One iteration of the stability loop of the local variant.
PollLocal ==
  /\ variant = "local"
  /\ wpc = "polling"
  /\ wi < StabilityPolls
  /\ polls' = CountPoll(polls)
  /\ \E currentBodyContent \in {0, 1, 2} :
       IF currentBodyContent = 0
       THEN \* executeScript throws: the catch block sleeps and the waiter returns
            /\ wpc' = "returned"
            /\ UNCHANGED <<stableCount, lastBodyContent, wi>>
       ELSE /\ stableCount' = IF currentBodyContent = lastBodyContent
                              THEN stableCount + 1 ELSE 0
            /\ lastBodyContent' = currentBodyContent
            /\ wi' = wi + 1
            /\ wpc' = IF stableCount' >= 2 \/ wi' >= StabilityPolls
                      THEN "returned" ELSE wpc
  /\ UNCHANGED <<wclock, stabilityStart, lastElementCount, wreport, windowDirty,
                 notWaitVars>>

\* No wait is under way.
WaitIdle ==
  /\ wpc = "none"
  /\ wclock = 0
  /\ polls = 0
  /\ stabilityStart = 0
  /\ lastElementCount = 0
  /\ stableCount = 0
  /\ lastBodyContent = 0
  /\ wi = 0
  /\ wreport = "none"
  /\ windowDirty = FALSE

(***************************************************************************)
(* The element resolver: findElementByMultipleStrategies and its tiers.    *)
(***************************************************************************)

Roles == {"username", "password", "submit"}

\* The elements a login page is made of.  By kind:
\*   email      <input type="email">
\*   plain      <input> without a type attribute
\*   emptytype  <input type="">
\*   tel        <input type="tel" placeholder="Login ID">
\*   password   <input type="password">
\*   submit     <button type="submit">Go</button> inside the form
\*   loginbtn   <button>Login</button> outside any form
\*   userid     <input type="text" id="username" placeholder="Username">
\* The inputs are siblings, and so are the buttons of the form.
ElementKinds2 == {"email", "plain", "emptytype", "tel", "password", "submit",
                  "loginbtn"}
InputKinds == {"email", "plain", "emptytype", "tel", "password", "userid"}

\* The inputs a user name may be typed into.
UsernameFieldKinds == {"email", "plain", "emptytype", "tel", "userid"}

\* What the driver answers about an element: displayed and enabled, not
\* displayed, displayed but disabled, or a stale reference (every call on
\* the element throws).
ElementStates == {"ok", "hidden", "disabled", "stale"}

DomElements == [kind : ElementKinds2, state : ElementStates]

MaxElems == 2
DomPages == UNION {[1 .. n -> DomElements] : n \in 0 .. MaxElems}

\* The pages made of user-name fields only.
UsernameFields == [kind : UsernameFieldKinds, state : ElementStates]
UsernamePages == UNION {[1 .. n -> UsernameFields] : n \in 0 .. MaxElems}

\* login() hands over the configured selector of the role, if any.
ProvidedSelectors == {<<>>, <<"input, button">>}

getSmartStrategies(elementType) ==
  CASE elementType = "username" ->
       <<"input[type=\"email\"]",
         "input[autocomplete=\"username\"]",
         "input[autocomplete=\"email\"]",
         "input[name=\"username\"]",
         "input[name=\"email\"]",
         "input[name=\"login\"]",
         "input[id=\"username\"]",
         "input[id=\"email\"]",
         "input[id=\"login\"]",
         "input[name*=\"user\"]",
         "input[name*=\"email\"]",
         "input[id*=\"user\"]",
         "input[id*=\"email\"]",
         "input[placeholder*=\"username\" i]",
         "input[placeholder*=\"email\" i]",
         "input[placeholder*=\"user\" i]",
         "input[type=\"text\"]:first-of-type",
         "input:not([type]):first-of-type">>
    [] elementType = "password" ->
       <<"input[type=\"password\"]",
         "input[autocomplete=\"current-password\"]",
         "input[autocomplete=\"password\"]",
         "input[name=\"password\"]",
         "input[id=\"password\"]",
         "input[name*=\"pass\"]",
         "input[id*=\"pass\"]",
         "input[placeholder*=\"password\" i]">>
    [] elementType = "submit" ->
       <<"button[type=\"submit\"]",
         "input[type=\"submit\"]",
         "button:contains(\"Login\")",
         "button:contains(\"Sign in\")",
         "button:contains(\"Log in\")",
         "button:contains(\"Submit\")",
         "button[class*=\"login\"]",
         "button[class*=\"signin\"]",
         "button[class*=\"submit\"]",
         "button[id*=\"login\"]",
         "button[id*=\"signin\"]",
         "button[id*=\"submit\"]",
         "form button:last-of-type",
         "form input[type=\"button\"]">>
    [] OTHER -> <<>>

getXPathStrategies(elementType) ==
  CASE elementType = "username" ->
       <<"//input[@placeholder[contains(lower(.), 'username')]]",
         "//input[@placeholder[contains(lower(.), 'email')]]",
         "//input[@placeholder[contains(lower(.), 'user')]]",
         "//input[@placeholder[contains(lower(.), 'login')]]",
         "//input[preceding-sibling::label[contains(lower(text()), 'username')]]",
         "//input[preceding-sibling::label[contains(lower(text()), 'email')]]",
         "//input[preceding-sibling::label[contains(lower(text()), 'user')]]",
         "//input[following-sibling::label[contains(lower(text()), 'username')]]",
         "//input[following-sibling::label[contains(lower(text()), 'email')]]",
         "//input[parent::*/label[contains(lower(text()), 'username')]]",
         "//input[parent::*/label[contains(lower(text()), 'email')]]",
         "//input[@type='text'][1]",
         "//input[@type='email'][1]",
         "//input[not(@type)][1]">>
    [] elementType = "password" ->
       <<"//input[@type='password']",
         "//input[@placeholder[contains(lower(.), 'password')]]",
         "//input[@placeholder[contains(lower(.), 'pass')]]",
         "//input[preceding-sibling::label[contains(lower(text()), 'password')]]",
         "//input[following-sibling::label[contains(lower(text()), 'password')]]",
         "//input[parent::*/label[contains(lower(text()), 'password')]]">>
    [] elementType = "submit" ->
       <<"//button[contains(lower(text()), 'login')]",
         "//button[contains(lower(text()), 'sign in')]",
         "//button[contains(lower(text()), 'log in')]",
         "//button[contains(lower(text()), 'submit')]",
         "//button[contains(lower(text()), 'enter')]",
         "//button[contains(lower(text()), 'continue')]",
         "//input[@type='submit']",
         "//input[@type='button'][@value[contains(lower(.), 'login')]]",
         "//input[@type='button'][@value[contains(lower(.), 'submit')]]",
         "//form//button[last()]",
         "//button[@type='submit']">>
    [] OTHER -> <<>>

\* The selectors of findGenericFormField, in the order they are tried.
GenericSelectors(v, elementType) ==
  IF v = "local"
  THEN CASE elementType = "username" ->
            <<"input[type=\"text\"]", "input[type=\"email\"]",
              "input:not([type])", "input[type=\"\"]">>
         [] elementType = "password" -> <<"input[type=\"password\"]">>
         [] elementType = "submit" ->
            <<"button[type=\"submit\"]", "input[type=\"submit\"]",
              "input[type=\"button\"]", "button:not([type])", "button",
              "form button", "[role=\"button\"]">>
         [] OTHER -> <<>>
  ELSE CASE elementType = "username" ->
            <<"input[type=\"text\"], input[type=\"email\"], input:not([type])">>
         [] elementType = "password" -> <<"input[type=\"password\"]">>
         [] elementType = "submit" ->
            <<"button, input[type=\"submit\"], input[type=\"button\"]">>
         [] OTHER -> <<>>

\* selector.includes('type='), selector.includes('name') and
\* selector.includes('id') over the smart selectors.
SelectorsIncludingType ==
  {"input[type=\"email\"]",
   "input[type=\"text\"]:first-of-type",
   "input[type=\"password\"]",
   "button[type=\"submit\"]",
   "input[type=\"submit\"]",
   "form input[type=\"button\"]"}

SelectorsIncludingName ==
  {"input[autocomplete=\"username\"]",
   "input[name=\"username\"]",
   "input[name=\"email\"]",
   "input[name=\"login\"]",
   "input[id=\"username\"]",
   "input[name*=\"user\"]",
   "input[name*=\"email\"]",
   "input[placeholder*=\"username\" i]",
   "input[name=\"password\"]",
   "input[name*=\"pass\"]"}

SelectorsIncludingId ==
  {"input[id=\"username\"]",
   "input[id=\"email\"]",
   "input[id=\"login\"]",
   "input[id*=\"user\"]",
   "input[id*=\"email\"]",
   "input[id=\"password\"]",
   "input[id*=\"pass\"]",
   "button[id*=\"login\"]",
   "button[id*=\"signin\"]",
   "button[id*=\"submit\"]"}

\* The selectors the driver rejects: :contains() is not CSS.
InvalidSelectors ==
  {"button:contains(\"Login\")",
   "button:contains(\"Sign in\")",
   "button:contains(\"Log in\")",
   "button:contains(\"Submit\")"}

\* Whether element i of the page is selected by the selector.
Matches(selector, page, i) ==
  LET kind == page[i].kind
      FirstOfKinds(kinds) == \A j \in 1 .. i - 1 : page[j].kind \notin kinds
      LastOfKinds(kinds) == \A j \in i + 1 .. Len(page) : page[j].kind \notin kinds
  IN CASE selector = "input, button" -> TRUE
       [] selector = "input[type=\"email\"]" -> kind = "email"
       [] selector \in {"input[id=\"username\"]", "input[id*=\"user\"]",
                        "input[placeholder*=\"username\" i]",
                        "input[placeholder*=\"user\" i]",
                        "//input[@placeholder[contains(lower(.), 'username')]]",
                        "//input[@placeholder[contains(lower(.), 'user')]]",
                        "input[type=\"text\"]"} -> kind = "userid"
       [] selector = "input[type=\"text\"]:first-of-type" ->
            kind = "userid" /\ FirstOfKinds(InputKinds)
       [] selector = "//input[@type='text'][1]" ->
            kind = "userid" /\ FirstOfKinds({"userid"})
       [] selector = "input:not([type]):first-of-type" ->
            kind = "plain" /\ FirstOfKinds(InputKinds)
       [] selector = "input[type=\"password\"]" -> kind = "password"
       [] selector = "button[type=\"submit\"]" -> kind = "submit"
       [] selector = "form button:last-of-type" ->
            kind = "submit" /\ LastOfKinds({"submit"})
       [] selector = "//input[@placeholder[contains(lower(.), 'login')]]" ->
            kind = "tel"
       [] selector = "//input[@type='email'][1]" ->
            kind = "email" /\ FirstOfKinds({"email"})
       [] selector = "//input[not(@type)][1]" ->
            kind = "plain" /\ FirstOfKinds({"plain"})
       [] selector = "//input[@type='password']" -> kind = "password"
       [] selector = "//button[contains(lower(text()), 'login')]" ->
            kind = "loginbtn"
       [] selector = "//form//button[last()]" ->
            kind = "submit" /\ LastOfKinds({"submit"})
       [] selector = "//button[@type='submit']" -> kind = "submit"
       [] selector = "input:not([type])" -> kind = "plain"
       [] selector = "input[type=\"\"]" -> kind = "emptytype"
       [] selector = "button:not([type])" -> kind = "loginbtn"
       [] selector = "button" -> kind \in {"submit", "loginbtn"}
       [] selector = "form button" -> kind = "submit"
       [] selector = "input[type=\"text\"], input[type=\"email\"], input:not([type])" ->
            kind \in {"email", "plain", "userid"}
       [] selector = "button, input[type=\"submit\"], input[type=\"button\"]" ->
            kind \in {"submit", "loginbtn"}
       [] OTHER -> FALSE

\* driver.findElements: the matching elements, by position in the document.
findElements(selector, page) ==
  {i \in 1 .. Len(page) : Matches(selector, page, i)}

\* Whether a lookup with the selector throws: the driver fails on it, or
\* rejects its syntax.
LookupThrows(selector, failing) ==
  selector \in failing \/ selector \in InvalidSelectors

\* driver.findElement: the first match, 0 standing for the exception thrown
\* when there is none.
findElement(selector, page) ==
  LET matching == findElements(selector, page)
  IN IF matching = {} THEN 0
     ELSE CHOOSE i \in matching : \A j \in matching : i <= j

\* validateElement: an exception of isDisplayed or isEnabled is answered as
\* not valid.
validateElement(element, isEnabled) ==
  /\ element.state # "stale"
  /\ element.state # "hidden"
  /\ isEnabled => element.state # "disabled"

NoHit(selectors) == [element |-> 0, at |-> Len(selectors) + 1]

\* The loop of the user-selector tier and of the XPath tier: the first
\* selector whose first match passes validation, from position k on.
RECURSIVE FirstValidatedHit(_, _, _, _, _)
FirstValidatedHit(selectors, k, page, failing, isEnabled) ==
  IF k > Len(selectors) THEN NoHit(selectors)
  ELSE LET i == IF LookupThrows(selectors[k], failing) THEN 0
                 ELSE findElement(selectors[k], page)
       IN IF i # 0 /\ validateElement(page[i], isEnabled)
          THEN [element |-> i, at |-> k]
          ELSE FirstValidatedHit(selectors, k + 1, page, failing, isEnabled)

\* The loop of findGenericFormField: the first selector with a match that
\* passes validation, from position k on.
RECURSIVE findGenericFormField(_, _, _, _)
findGenericFormField(selectors, k, page, failing) ==
  IF k > Len(selectors) THEN NoHit(selectors)
  ELSE LET valid == IF LookupThrows(selectors[k], failing) THEN {}
                     ELSE {i \in findElements(selectors[k], page) :
                             validateElement(page[i], TRUE)}
       IN IF valid # {}
          THEN [element |-> CHOOSE i \in valid : \A j \in valid : i <= j,
                at |-> k]
          ELSE findGenericFormField(selectors, k + 1, page, failing)

\* The placeholder attribute of an element, in lower case.
Placeholder(element) ==
  CASE element.kind = "tel" -> "login id"
    [] element.kind = "userid" -> "username"
    [] OTHER -> ""

\* placeholderLower.includes('user') || placeholderLower.includes('email')
PlaceholderNamesUser(element) == Placeholder(element) = "username"

\* scoreElement.  scoreThrows: the findElements call listing the inputs
\* throws.  The callback handed to findIndex is async, so the index found is
\* 0 when the page has an input and -1 when it has none.
scoreElement(page, i, elementType, selector, scoreThrows) ==
  IF scoreThrows THEN 1
  ELSE LET elementIndex == IF \E j \in 1 .. Len(page) : page[j].kind \in InputKinds
                           THEN 0 ELSE 0 - 1
       IN 10
          + (IF selector \in SelectorsIncludingType THEN 20 ELSE 0)
          + (IF selector \in SelectorsIncludingName THEN 15 ELSE 0)
          + (IF selector \in SelectorsIncludingId THEN 15 ELSE 0)
          + (IF elementType = "username" /\ elementIndex <= 1 THEN 10 ELSE 0)
          + (IF elementType = "password" /\ elementIndex <= 2 THEN 10 ELSE 0)
          + (IF Placeholder(page[i]) # "" THEN 5 ELSE 0)
          + (IF elementType = "username" /\ PlaceholderNamesUser(page[i])
             THEN 10 ELSE 0)
          + 5

\* findCandidateElements before the sort: every validated match of every
\* smart strategy, with its score.
findCandidateElements(elementType, page, failing, scoreThrows) ==
  LET strategies == getSmartStrategies(elementType)
  IN {[k |-> pr[1], element |-> pr[2],
       score |-> scoreElement(page, pr[2], elementType, strategies[pr[1]],
                              scoreThrows)] :
        pr \in {p \in (1 .. Len(strategies)) \X (1 .. Len(page)) :
                        /\ ~LookupThrows(strategies[p[1]], failing)
                        /\ Matches(strategies[p[1]], page, p[2])
                        /\ validateElement(page[p[2]], TRUE)}}

\* candidates.sort((a, b) => b.score - a.score)[0]: the highest score, and
\* among equal scores the candidate pushed first.
BestCandidate(candidates) ==
  CHOOSE c \in candidates :
    \A d \in candidates :
      \/ c.score > d.score
      \/ c.score = d.score /\ (c.k < d.k \/ (c.k = d.k /\ c.element <= d.element))

\* The smart tier as a hit: every strategy is run.
SmartHit(elementType, page, failing, scoreThrows) ==
  LET candidates == findCandidateElements(elementType, page, failing, scoreThrows)
      strategies == getSmartStrategies(elementType)
  IN [element |-> IF candidates = {} THEN 0 ELSE BestCandidate(candidates).element,
      at |-> Len(strategies)]

Tiers == <<"user", "smart", "xpath", "generic">>

NotFoundError == "Could not find field using any detection strategy"

\* The selectors of a tier that select something on the page: the lookups
\* whose failure can change what the tier answers.
MatchingSelectors(selectors, page) ==
  {selectors[k] : k \in {n \in 1 .. Len(selectors) :
                           findElements(selectors[n], page) # {}}}

\* Whether one of the lookups a tier made threw, the tier having stopped at
\* position hit.at of its selectors.
SomeLookupThrew(selectors, hit, failing) ==
  \E k \in 1 .. Len(selectors) : k <= hit.at /\ LookupThrows(selectors[k], failing)

\* A resolver that goes on to the next tier whatever the tier found.
ShortCircuitsNever(hit) == FALSE

\* if (isValid) return element: a validated hit ends the resolution.
ShortCircuits(hit) == hit.element # 0

\* A resolver whose catch blocks pass the exception on.
OnLookupFailureRethrow(tier) == "throw"

\* catch (e) { continue }: what a lookup that threw does to the resolution.
OnLookupFailure(tier) == "continue"

\* Where the resolution goes when a tier produced nothing.
AfterTier(tier) ==
  CASE tier = "user" -> "smart"
    [] tier = "smart" -> "xpath"
    [] tier = "xpath" -> "generic"
    [] tier = "generic" -> "threw"

\* One tier has run over its selectors and answered hit.
TierDone(tier, selectors, hit, failing) ==
  LET threw == SomeLookupThrew(selectors, hit, failing)
  IN /\ consulted' = Append(consulted, [tier |-> tier, hit |-> hit.element # 0])
     /\ lookupFailed' = (lookupFailed \/ threw)
     /\ IF threw /\ OnLookupFailure(tier) = "throw"
        THEN rpc' = "threw" /\ found' = 0 /\ rerror' = "driver error"
        ELSE IF ShortCircuits(hit)
        THEN rpc' = "returned" /\ found' = hit.element /\ rerror' = rerror
        ELSE /\ rpc' = AfterTier(tier)
             /\ found' = 0
             /\ rerror' = IF AfterTier(tier) = "threw" THEN NotFoundError ELSE rerror
     /\ UNCHANGED <<role, providedSelectors, dom>>

\* The user-provided selectors, if any.
ConsultUser ==
  /\ rpc = "user"
  /\ IF providedSelectors = <<>>
     THEN rpc' = "smart" /\ UNCHANGED <<role, providedSelectors, dom, consulted,
                                        found, lookupFailed, rerror>>
     ELSE \E failing \in SUBSET MatchingSelectors(providedSelectors, dom) :
            TierDone("user", providedSelectors,
                     FirstValidatedHit(providedSelectors, 1, dom, failing, FALSE),
                     failing)
  /\ UNCHANGED notResolveVars

\* The smart CSS strategies, ranked.
ConsultSmart ==
  /\ rpc = "smart"
  /\ \E failing \in SUBSET MatchingSelectors(getSmartStrategies(role), dom),
        scoreThrows \in BOOLEAN :
       TierDone("smart", getSmartStrategies(role),
                SmartHit(role, dom, failing, scoreThrows), failing)
  /\ UNCHANGED notResolveVars

\* The XPath strategies.
ConsultXPath ==
  /\ rpc = "xpath"
  /\ \E failing \in SUBSET MatchingSelectors(getXPathStrategies(role), dom) :
       TierDone("xpath", getXPathStrategies(role),
                FirstValidatedHit(getXPathStrategies(role), 1, dom, failing, TRUE),
                failing)
  /\ UNCHANGED notResolveVars

\* The generic form-field fallback, and the error when it finds nothing.
ConsultGeneric ==
  /\ rpc = "generic"
  /\ \E failing \in SUBSET MatchingSelectors(GenericSelectors(variant, role), dom) :
       TierDone("generic", GenericSelectors(variant, role),
                findGenericFormField(GenericSelectors(variant, role), 1, dom, failing),
                failing)
  /\ UNCHANGED notResolveVars

\* No resolution is under way.
ResolveIdle ==
  /\ role = "none"
  /\ providedSelectors = <<>>
  /\ dom = <<>>
  /\ rpc = "none"
  /\ consulted = <<>>
  /\ found = 0
  /\ lookupFailed = FALSE
  /\ rerror = "none"

ResolveInit ==
  /\ variant \in Variants
  /\ CrawlIdle
  /\ VerifyIdle
  /\ WaitIdle
  /\ SmartIdle
  /\ ScoringIdle
  /\ LinksIdle
  /\ PageIdle
  /\ PwIdle
  /\ MultiIdle
  /\ RunIdle
  /\ LoginIdle
  /\ ScoreIdle
  /\ role \in Roles
  /\ providedSelectors \in ProvidedSelectors
  /\ dom \in DomPages
  /\ rpc = "user"
  /\ consulted = <<>>
  /\ found = 0
  /\ lookupFailed = FALSE
  /\ rerror = "none"

\* The resolution of the user-name field on a page of user-name fields, no
\* selector being configured.
ResolveUsernameInit ==
  /\ variant \in Variants
  /\ CrawlIdle
  /\ VerifyIdle
  /\ WaitIdle
  /\ SmartIdle
  /\ ScoringIdle
  /\ LinksIdle
  /\ PageIdle
  /\ PwIdle
  /\ MultiIdle
  /\ RunIdle
  /\ LoginIdle
  /\ ScoreIdle
  /\ role = "username"
  /\ providedSelectors = <<>>
  /\ dom \in UsernamePages
  /\ rpc = "user"
  /\ consulted = <<>>
  /\ found = 0
  /\ lookupFailed = FALSE
  /\ rerror = "none"

ResolveNext == ConsultUser \/ ConsultSmart \/ ConsultXPath \/ ConsultGeneric

VerifyInit ==
  /\ variant \in Variants
  /\ CrawlIdle
  /\ ResolveIdle
  /\ WaitIdle
  /\ SmartIdle
  /\ ScoringIdle
  /\ LinksIdle
  /\ PageIdle
  /\ PwIdle
  /\ MultiIdle
  /\ RunIdle
  /\ LoginIdle
  /\ ScoreIdle
  /\ vpc = "NotAttempted"
  /\ vconfig \in [loginUrl : LoginUrls, postLoginUrl : VPostLoginUrls]
  /\ vpage = NoPage
  /\ vsignals = NoSignals
  /\ verdict = FALSE

VerifyNext == Submit \/ VerifyLoginSuccess

\* The crawl of a deep site, without login.
DeepInit ==
  /\ variant \in Variants
  /\ maxPages \in 0 .. DeepPagesBound
  /\ startUrl = HomeUrl
  /\ loginConfig = NoLogin
  /\ pc = "idle"
  /\ loginResult = NoResult
  /\ verifiedUrl = NoUrl
  /\ crawlStartUrl = startUrl
  /\ results = <<>>
  /\ visited = {}
  /\ queue = <<>>
  /\ tested = <<>>
  /\ lastError = "none"
  /\ VerifyIdle
  /\ ResolveIdle
  /\ WaitIdle
  /\ SmartIdle
  /\ ScoringIdle
  /\ LinksIdle
  /\ PageIdle
  /\ PwIdle
  /\ MultiIdle
  /\ RunIdle
  /\ LoginIdle
  /\ ScoreIdle

\* The crawl of the ten-link site, without login.
TenInit ==
  /\ variant \in Variants
  /\ maxPages \in TenSiteBudgets
  /\ startUrl = HomeUrl
  /\ loginConfig = NoLogin
  /\ pc = "idle"
  /\ loginResult = NoResult
  /\ verifiedUrl = NoUrl
  /\ crawlStartUrl = startUrl
  /\ results = <<>>
  /\ visited = {}
  /\ queue = <<>>
  /\ tested = <<>>
  /\ lastError = "none"
  /\ VerifyIdle
  /\ ResolveIdle
  /\ WaitIdle
  /\ SmartIdle
  /\ ScoringIdle
  /\ LinksIdle
  /\ PageIdle
  /\ PwIdle
  /\ MultiIdle
  /\ RunIdle
  /\ LoginIdle
  /\ ScoreIdle

Init == CrawlInit /\ VerifyIdle /\ ResolveIdle /\ WaitIdle /\ SmartIdle /\ ScoringIdle /\ LinksIdle /\ PageIdle /\ PwIdle /\ MultiIdle /\ RunIdle /\ LoginIdle /\ ScoreIdle

Next == CrawlNext

Spec == Init /\ [][Next]_vars

\* A crawl whose driver calls all come back: each await resumes, so a step
\* that can be taken is taken.
SpecCrawlFair == Init /\ [][Next]_vars /\ WF_vars(Next)

SpecDeep == DeepInit /\ [][DeepNext]_vars

SpecTenLinks == TenInit /\ [][TenNext]_vars

SpecVerify == VerifyInit /\ [][VerifyNext]_vars

SpecResolve == ResolveInit /\ [][ResolveNext]_vars

SpecResolveUsername == ResolveUsernameInit /\ [][ResolveNext]_vars

\* waitForDynamicContent entered, a driver being connected.
WaitInit ==
  /\ variant \in Variants
  /\ CrawlIdle
  /\ VerifyIdle
  /\ ResolveIdle
  /\ ScoreIdle
  /\ LoginIdle
  /\ RunIdle
  /\ MultiIdle
  /\ PwIdle
  /\ PageIdle
  /\ LinksIdle
  /\ ScoringIdle
  /\ SmartIdle
  /\ wpc = IF variant = "local" THEN "ready" ELSE "polling"
  /\ wclock = startTime
  /\ polls = 0
  /\ stabilityStart = 0
  /\ lastElementCount = 0
  /\ stableCount = 0
  /\ lastBodyContent = 0
  /\ wi = 0
  /\ wreport = "none"
  /\ windowDirty = FALSE

WaitNext == PollBS \/ TimeoutBS \/ WaitReadyLocal \/ PollLocal

\* The awaited driver calls and timers of the waiter complete: a step of the
\* waiter that can be taken is taken.
SpecWait == WaitInit /\ [][WaitNext]_vars /\ WF_vars(WaitNext)

(***************************************************************************)
(* The driver operations of findCandidateElements and scoreElement.       *)
(***************************************************************************)

MaxInputs == 2
MaxCands == 2

\* A driver operation, issued for a candidate.
Op(name, c) == [op |-> name, cand |-> c]

\* What allInputs.findIndex(async (el) => ...) issues: the callback is called
\* for the first input, calls driver.executeScript and returns a promise,
\* which findIndex takes for a match; nothing awaits the promise.
IssuedByFindIndex(n, c) == IF n > 0 THEN {Op("compare", c)} ELSE {}

\* The outcome of an awaited driver operation.
OpOutcomes == {"ok", "throws"}

\* findCandidateElements validates the next candidate: isDisplayed.
ValidateCandidate ==
  /\ spc = "next"
  /\ cand < numCands
  /\ cand' = cand + 1
  /\ inFlight' = inFlight \cup {Op("isDisplayed", cand')}
  /\ spc' = "validate"
  /\ UNCHANGED <<sElementType, numInputs, numCands>>
  /\ UNCHANGED <<variant, notScoreVars>>

\* The candidate is valid and scoreElement is called: findElements('input').
ScoreElementCall ==
  /\ spc = "validate"
  /\ inFlight' = (inFlight \ {Op("isDisplayed", cand)}) \cup {Op("findInputs", cand)}
  /\ spc' = "findInputs"
  /\ UNCHANGED <<sElementType, numInputs, numCands, cand>>
  /\ UNCHANGED <<variant, notScoreVars>>

\* findElements('input') completes: it throws and scoreElement returns 1, or
\* findIndex runs and the label script is issued.
FindInputsDone ==
  /\ spc = "findInputs"
  /\ \E o \in OpOutcomes :
       IF o = "throws"
       THEN /\ inFlight' = inFlight \ {Op("findInputs", cand)}
            /\ spc' = "next"
       ELSE /\ inFlight' = (inFlight \ {Op("findInputs", cand)})
                             \cup IssuedByFindIndex(numInputs, cand)
                             \cup {Op("label", cand)}
            /\ spc' = "label"
  /\ UNCHANGED <<sElementType, numInputs, numCands, cand>>
  /\ UNCHANGED <<variant, notScoreVars>>

\* The label script completes or throws: getAttribute('placeholder') is next.
LabelDone ==
  /\ spc = "label"
  /\ inFlight' = (inFlight \ {Op("label", cand)}) \cup {Op("placeholder", cand)}
  /\ spc' = "placeholder"
  /\ UNCHANGED <<sElementType, numInputs, numCands, cand>>
  /\ UNCHANGED <<variant, notScoreVars>>

\* getAttribute completes or throws: getSize is next.
PlaceholderDone ==
  /\ spc = "placeholder"
  /\ inFlight' = (inFlight \ {Op("placeholder", cand)}) \cup {Op("size", cand)}
  /\ spc' = "size"
  /\ UNCHANGED <<sElementType, numInputs, numCands, cand>>
  /\ UNCHANGED <<variant, notScoreVars>>

\* getSize completes or throws: scoreElement returns the score.
SizeDone ==
  /\ spc = "size"
  /\ inFlight' = inFlight \ {Op("size", cand)}
  /\ spc' = "next"
  /\ UNCHANGED <<sElementType, numInputs, numCands, cand>>
  /\ UNCHANGED <<variant, notScoreVars>>

\* The comparison script of some findIndex callback completes, whenever the
\* browser answers it.
CompareDone ==
  /\ \E o \in inFlight :
       /\ o.op = "compare"
       /\ inFlight' = inFlight \ {o}
  /\ UNCHANGED <<spc, sElementType, numInputs, numCands, cand>>
  /\ UNCHANGED <<variant, notScoreVars>>

\* findCandidateElements entered, with candidates to score.
ScoreInit ==
  /\ variant \in Variants
  /\ CrawlIdle
  /\ VerifyIdle
  /\ ResolveIdle
  /\ WaitIdle
  /\ SmartIdle
  /\ ScoringIdle
  /\ LinksIdle
  /\ PageIdle
  /\ PwIdle
  /\ MultiIdle
  /\ RunIdle
  /\ LoginIdle
  /\ spc = "next"
  /\ sElementType \in Roles
  /\ numInputs \in 0 .. MaxInputs
  /\ numCands \in 1 .. MaxCands
  /\ cand = 0
  /\ inFlight = {}

ScoreNext ==
  \/ ValidateCandidate
  \/ ScoreElementCall
  \/ FindInputsDone
  \/ LabelDone
  \/ PlaceholderDone
  \/ SizeDone
  \/ CompareDone

SpecScore == ScoreInit /\ [][ScoreNext]_vars

(***************************************************************************)
(* login() and the login branch of crawlAndTest.                           *)
(***************************************************************************)

\* A login that fills the password before the username.
LoginStepsPasswordFirst ==
  <<"get", "waitForDynamicContent",
    "password", "clear", "sendKeys", "sleep",
    "username", "clear", "sendKeys", "sleep",
    "submit", "click", "sleep",
    "getCurrentUrl", "verifyLoginSuccess">>

\* The awaited steps of login(), in order.
LoginSteps ==
  <<"get", "waitForDynamicContent",
    "username", "clear", "sendKeys", "sleep",
    "password", "clear", "sendKeys", "sleep",
    "submit", "click", "sleep",
    "getCurrentUrl", "verifyLoginSuccess">>

\* The steps that can throw: waitForDynamicContent and verifyLoginSuccess
\* catch what they meet, and a sleep is a timer.
ThrowingSteps == {"get", "clear", "sendKeys", "click", "getCurrentUrl"}

\* The error findElementByMultipleStrategies throws when every tier missed.
RoleNotFoundError(elementType) ==
  Error(<<"Could not find ", elementType, " field using any detection strategy">>)

DriverError == Error(<<"WebDriverError">>)

LoginFailedError == Error(<<"Login failed - cannot proceed with crawling">>)

\* What the catch block of login() returns, the error at hand.
LoginCatchResult(error) == [returned |-> TRUE, success |-> FALSE, currentUrl |-> NoUrl]

\* A step of login() other than a resolution and the verification: it
\* completes, or it throws.
LoginDriverStep ==
  /\ lpc = "login"
  /\ LoginSteps[lstep] \notin Roles \cup {"verifyLoginSuccess"}
  /\ \/ /\ lstep' = lstep + 1
        /\ lcurrentUrl' \in IF LoginSteps[lstep] = "getCurrentUrl"
                            THEN {HomeUrl, [path |-> "/about", q |-> ""]}
                            ELSE {lcurrentUrl}
        /\ UNCHANGED <<lpc, caught>>
     \/ /\ LoginSteps[lstep] \in ThrowingSteps
        /\ caught' = DriverError
        /\ lpc' = "caught"
        /\ UNCHANGED <<lstep, lcurrentUrl>>
  /\ UNCHANGED <<lselectors, lresult, callerError>>
  /\ UNCHANGED <<variant, notLoginVars>>

\* findElementByMultipleStrategies for a role: it returns an element, or
\* every tier missed and it throws.
LoginResolveStep ==
  /\ lpc = "login"
  /\ LoginSteps[lstep] \in Roles
  /\ \/ /\ lstep' = lstep + 1
        /\ UNCHANGED <<lpc, caught>>
     \/ /\ caught' = RoleNotFoundError(LoginSteps[lstep])
        /\ lpc' = "caught"
        /\ UNCHANGED lstep
  /\ UNCHANGED <<lselectors, lcurrentUrl, lresult, callerError>>
  /\ UNCHANGED <<variant, notLoginVars>>

\* verifyLoginSuccess answers and login() returns the verdict with currentUrl.
LoginReturn ==
  /\ lpc = "login"
  /\ LoginSteps[lstep] = "verifyLoginSuccess"
  /\ \E loginSuccessful \in BOOLEAN :
       lresult' = [returned |-> TRUE, success |-> loginSuccessful,
                   currentUrl |-> lcurrentUrl]
  /\ lpc' = "returned"
  /\ UNCHANGED <<lstep, lselectors, lcurrentUrl, caught, callerError>>
  /\ UNCHANGED <<variant, notLoginVars>>

\* The catch block of login(): it logs the error and returns.
LoginCatch ==
  /\ lpc = "caught"
  /\ lresult' = LoginCatchResult(caught)
  /\ lpc' = "returned"
  /\ UNCHANGED <<lstep, lselectors, lcurrentUrl, caught, callerError>>
  /\ UNCHANGED <<variant, notLoginVars>>

\* crawlAndTest with what login() returned: it goes on, or it throws.
AfterLogin ==
  /\ lpc = "returned"
  /\ IF LoginAllowsCrawl(lresult)
     THEN /\ lpc' = "crawl"
          /\ UNCHANGED callerError
     ELSE /\ lpc' = "rejected"
          /\ callerError' = LoginFailedError
  /\ UNCHANGED <<lstep, lselectors, lcurrentUrl, caught, lresult>>
  /\ UNCHANGED <<variant, notLoginVars>>

\* crawlAndTest has called login(), a login configuration being given.
LoginInit ==
  /\ variant \in Variants
  /\ CrawlIdle
  /\ VerifyIdle
  /\ ResolveIdle
  /\ WaitIdle
  /\ SmartIdle
  /\ ScoringIdle
  /\ LinksIdle
  /\ PageIdle
  /\ PwIdle
  /\ MultiIdle
  /\ RunIdle
  /\ ScoreIdle
  /\ lpc = "login"
  /\ lstep = 1
  /\ lselectors \in SUBSET Roles
  /\ lcurrentUrl = NoUrl
  /\ caught = NoError
  /\ lresult = NoResult
  /\ callerError = NoError

LoginNext ==
  \/ LoginDriverStep
  \/ LoginResolveStep
  \/ LoginReturn
  \/ LoginCatch
  \/ AfterLogin

SpecLogin == LoginInit /\ [][LoginNext]_vars

(***************************************************************************)
(* The main execution functions: runBrowserStackA11yTest,                  *)
(* runEnhancedBrowserStackA11yTest and runEnhancedLocalA11yTest.           *)
(***************************************************************************)

Runners == {"runBrowserStackA11yTest", "runEnhancedBrowserStackA11yTest",
            "runEnhancedLocalA11yTest"}

\* The runners that crawl, with a login when one is configured.
EnhancedRunners == {"runEnhancedBrowserStackA11yTest", "runEnhancedLocalA11yTest"}

\* The most pages a run goes through.
MaxRunPages == 2

\* The pages a runner may be asked for: testMultipleUrls takes any list of
\* URLs; crawlAndTest tests the start page whatever the budget.
PageCounts(r) == IF r \in EnhancedRunners THEN 1 .. MaxRunPages ELSE 0 .. MaxRunPages

\* Whether the test of the next page can throw: testUrl and the crawl loop
\* catch what a page throws; the start page of crawlAndTest is outside any
\* try block.
PageCanThrow(r, n) == r \in EnhancedRunners /\ n = 0

\* A close() that never quits the driver.
QuitsDriverNever(set) == FALSE

\* close(): if (this.driver) await this.driver.quit().
QuitsDriver(set) == set

\* tester.connect(): the session is built, or the build throws, or the
\* session is built and getSession throws.
RunConnect ==
  /\ rnpc = "connect"
  /\ \/ /\ driverSet' = TRUE
        /\ rnpc' = IF rnLogin THEN "login" ELSE "test"
        /\ UNCHANGED pending
     \/ /\ driverSet' \in BOOLEAN
        /\ pending' = "connection"
        /\ rnpc' = "catch"
  /\ UNCHANGED <<runner, rnLogin, nPages, pagesTested, closeCalls, quitCalls, ended>>
  /\ UNCHANGED <<variant, notRunVars>>

\* crawlAndTest with a login configuration: login() succeeds, or crawlAndTest
\* throws.
RunLogin ==
  /\ rnpc = "login"
  /\ \/ /\ rnpc' = "test"
        /\ UNCHANGED pending
     \/ /\ pending' = "login"
        /\ rnpc' = "catch"
  /\ UNCHANGED <<runner, rnLogin, nPages, pagesTested, driverSet, closeCalls,
                 quitCalls, ended>>
  /\ UNCHANGED <<variant, notRunVars>>

\* testMultipleUrls or crawlAndTest tests one more page.
RunTestPage ==
  /\ rnpc = "test"
  /\ pagesTested < nPages
  /\ \/ /\ pagesTested' = pagesTested + 1
        /\ UNCHANGED <<rnpc, pending>>
     \/ /\ PageCanThrow(runner, pagesTested)
        /\ pending' = "crawl"
        /\ rnpc' = "catch"
        /\ UNCHANGED pagesTested
  /\ UNCHANGED <<runner, rnLogin, nPages, driverSet, closeCalls, quitCalls, ended>>
  /\ UNCHANGED <<variant, notRunVars>>

\* testMultipleUrls or crawlAndTest returns the results.
RunTestsDone ==
  /\ rnpc = "test"
  /\ pagesTested = nPages
  /\ rnpc' = "report"
  /\ UNCHANGED <<runner, rnLogin, nPages, pagesTested, driverSet, pending,
                 closeCalls, quitCalls, ended>>
  /\ UNCHANGED <<variant, notRunVars>>

\* tester.generateReport and the summary.
RunReport ==
  /\ rnpc = "report"
  /\ \/ /\ rnpc' = "finally"
        /\ UNCHANGED pending
     \/ /\ pending' = "report"
        /\ rnpc' = "catch"
  /\ UNCHANGED <<runner, rnLogin, nPages, pagesTested, driverSet, closeCalls, quitCalls, ended>>
  /\ UNCHANGED <<variant, notRunVars>>

\* catch (error): log it and throw it again.
RunCatch ==
  /\ rnpc = "catch"
  /\ rnpc' = "finally"
  /\ UNCHANGED <<runner, rnLogin, nPages, pagesTested, driverSet, pending, closeCalls,
                 quitCalls, ended>>
  /\ UNCHANGED <<variant, notRunVars>>

\* finally: await tester.close(); then the function returns or rejects.  A
\* quit that throws makes the function reject with that error.
RunFinally ==
  /\ rnpc = "finally"
  /\ closeCalls' = closeCalls + 1
  /\ quitCalls' = IF QuitsDriver(driverSet) THEN quitCalls + 1 ELSE quitCalls
  /\ \E quitThrows \in {q \in BOOLEAN : q => QuitsDriver(driverSet)} :
       /\ pending' = IF quitThrows THEN "quit" ELSE pending
       /\ ended' = IF pending' = "none" THEN "returned" ELSE "rejected"
       /\ driverSet' = IF runner = "runEnhancedLocalA11yTest" /\ ~quitThrows
                       THEN FALSE ELSE driverSet
  /\ rnpc' = "ended"
  /\ UNCHANGED <<runner, rnLogin, nPages, pagesTested>>
  /\ UNCHANGED <<variant, notRunVars>>

\* A main execution function is called: the tester is constructed.
RunInit ==
  /\ CrawlIdle
  /\ VerifyIdle
  /\ ResolveIdle
  /\ WaitIdle
  /\ SmartIdle
  /\ ScoringIdle
  /\ LinksIdle
  /\ PageIdle
  /\ PwIdle
  /\ MultiIdle
  /\ ScoreIdle
  /\ LoginIdle
  /\ runner \in Runners
  /\ variant = (IF runner = "runEnhancedLocalA11yTest" THEN "local" ELSE "bs")
  /\ rnpc = "connect"
  /\ rnLogin \in {l \in BOOLEAN : l => runner \in EnhancedRunners}
  /\ nPages \in PageCounts(runner)
  /\ pagesTested = 0
  /\ driverSet = FALSE
  /\ pending = "none"
  /\ closeCalls = 0
  /\ quitCalls = 0
  /\ ended = "none"

RunNext ==
  \/ RunConnect
  \/ RunLogin
  \/ RunTestPage
  \/ RunTestsDone
  \/ RunReport
  \/ RunCatch
  \/ RunFinally

SpecRun == RunInit /\ [][RunNext]_vars

(***************************************************************************)
(* BrowserStackA11yTester: testUrl and testMultipleUrls.                   *)
(***************************************************************************)

MaxUrls == 3

\* The urls a caller may pass: any list, repetitions included.
UrlLists == UNION {[1 .. n -> {"https://a.test/", "https://b.test/"}] : n \in 0 .. MaxUrls}

\* What the try block of testUrl meets: every call completes, or driver.get,
\* driver.getTitle or the analysis throws.
TestUrlOutcomes == {"ok", "getThrows", "getTitleThrows", "analyzeThrows"}

\* error instanceof Error ? error.message : String(error)
ErrorMessage(o) == IF o = "ok" THEN "undefined" ELSE o

\* A testUrl that reports every test as a success.
testUrlAlwaysSuccess(url, o) == [url |-> url, success |-> TRUE, error |-> "undefined"]

\* What testUrl returns, from its try block or from its catch block.
testUrl(url, o) == [url |-> url, success |-> (o = "ok"), error |-> ErrorMessage(o)]

\* One iteration of the loop of testMultipleUrls, the driver connected:
\* testUrl, results.push, and the delay.
TestNextUrl ==
  /\ mpc = "loop"
  /\ mConnected
  /\ Len(mTested) < Len(mUrls)
  /\ LET url == mUrls[Len(mTested) + 1]
     IN \E o \in TestUrlOutcomes :
          /\ mTested' = Append(mTested, [url |-> url, outcome |-> o])
          /\ mResults' = Append(mResults, testUrl(url, o))
  /\ UNCHANGED <<mpc, mConnected, mUrls>>
  /\ UNCHANGED <<variant, notMultiVars>>

\* testUrl without a driver throws before its try block: testMultipleUrls
\* rejects.
TestWithoutDriver ==
  /\ mpc = "loop"
  /\ ~mConnected
  /\ Len(mTested) < Len(mUrls)
  /\ mpc' = "rejected"
  /\ UNCHANGED <<mConnected, mUrls, mTested, mResults>>
  /\ UNCHANGED <<variant, notMultiVars>>

\* The loop is over: return results.
ReturnResults ==
  /\ mpc = "loop"
  /\ Len(mTested) = Len(mUrls)
  /\ mpc' = "returned"
  /\ UNCHANGED <<mConnected, mUrls, mTested, mResults>>
  /\ UNCHANGED <<variant, notMultiVars>>

\* testMultipleUrls is called.
MultiInit ==
  /\ variant = "bs"
  /\ CrawlIdle
  /\ VerifyIdle
  /\ ResolveIdle
  /\ WaitIdle
  /\ SmartIdle
  /\ ScoringIdle
  /\ LinksIdle
  /\ PageIdle
  /\ PwIdle
  /\ ScoreIdle
  /\ LoginIdle
  /\ RunIdle
  /\ mpc = "loop"
  /\ mConnected \in BOOLEAN
  /\ mUrls \in UrlLists
  /\ mTested = <<>>
  /\ mResults = <<>>

MultiNext == TestNextUrl \/ TestWithoutDriver \/ ReturnResults

SpecMulti == MultiInit /\ [][MultiNext]_vars

(***************************************************************************)
(* main.ts: crawlAndTest and getInternalLinks on a Playwright page.        *)
(***************************************************************************)

\* The pages of a small site, all of the origin of the start URL, in the
\* order their links appear in a document; and the crawl start URL.
PwPages == <<"/", "/a", "/b">>

PwStart == "/"

PwPageSet == {PwPages[i] : i \in 1 .. Len(PwPages)}

\* The sites: every page links to some of the pages.
PwSites == [PwPageSet -> SUBSET PwPageSet]

\* getInternalLinks: the same-origin hrefs of the page, without repetition.
PwInternalLinks(site, url) ==
  LET Linked(p) == p \in site[url]
  IN SelectSeq(PwPages, Linked)

\* What the visit of one page meets: page.goto or the axe analysis throws.
PwOutcomes == {"ok", "gotoThrows", "analyzeThrows"}

\* The links that go to the queue: those not visited.
PwNewEntries(links, vis) ==
  LET NotVisited(l) == l \notin vis
  IN SelectSeq(links, NotVisited)

\* One iteration of the loop: shift, skip a visited URL, or go to the page,
\* analyse it and queue its links.  Nothing catches what goto or the analysis
\* throws: crawlAndTest rejects.
PwCrawlStep ==
  /\ ppc = "crawling"
  /\ pqueue # <<>>
  /\ LET url == Head(pqueue)
         rest == Tail(pqueue)
     IN IF url \in pvisited
        THEN /\ pqueue' = rest
             /\ UNCHANGED <<ppc, pvisited, presults>>
        ELSE /\ pvisited' = pvisited \cup {url}
             /\ \E o \in PwOutcomes :
                  IF o = "ok"
                  THEN /\ presults' = Append(presults, [url |-> url])
                       /\ pqueue' = rest \o PwNewEntries(PwInternalLinks(psite, url), pvisited')
                       /\ UNCHANGED ppc
                  ELSE /\ ppc' = "rejected"
                       /\ pqueue' = rest
                       /\ UNCHANGED presults
  /\ UNCHANGED psite
  /\ UNCHANGED <<variant, notPwVars>>

\* The queue is empty: return results.
PwReturn ==
  /\ ppc = "crawling"
  /\ pqueue = <<>>
  /\ ppc' = "returned"
  /\ UNCHANGED <<psite, pqueue, pvisited, presults>>
  /\ UNCHANGED <<variant, notPwVars>>

\* crawlAndTest(page, startUrl) is called.
PwInit ==
  /\ variant = "local"
  /\ CrawlIdle
  /\ VerifyIdle
  /\ ResolveIdle
  /\ WaitIdle
  /\ SmartIdle
  /\ ScoringIdle
  /\ LinksIdle
  /\ PageIdle
  /\ ScoreIdle
  /\ LoginIdle
  /\ RunIdle
  /\ MultiIdle
  /\ ppc = "crawling"
  /\ psite \in PwSites
  /\ pqueue = <<PwStart>>
  /\ pvisited = {}
  /\ presults = <<>>

PwNext == PwCrawlStep \/ PwReturn

\* Each awaited call of the crawl settles: a step that can be taken is taken.
SpecPw == PwInit /\ [][PwNext]_vars /\ WF_vars(PwNext)

(***************************************************************************)
(* The calls crawlAndTest and testCurrentPage make for one page.           *)
(***************************************************************************)

MaxTestPages == 3

\* The awaited calls for a page, from the navigation to the analysis: the
\* local testCurrentPage waits for the page to stabilize, the BrowserStack
\* one reads the title and analyses; the BrowserStack crawl does not sleep
\* after the navigation to the start page.
PageCalls(v, k) ==
  IF v = "local"
  THEN <<"get", "sleep", "getCurrentUrl", "waitForDynamicContent", "analyze">>
  ELSE IF k = 1
  THEN <<"get", "getCurrentUrl", "getTitle", "analyze">>
  ELSE <<"get", "sleep", "getCurrentUrl", "getTitle", "analyze">>

\* The calls that may throw: a sleep is a timer and waitForDynamicContent
\* catches what it meets.
ThrowingCalls == {"get", "getCurrentUrl", "getTitle", "analyze"}

\* The crawl goes on to the next page, or returns.
NextPage ==
  /\ tk' = tk + 1
  /\ tstep' = 1
  /\ tlog' = <<>>
  /\ tpc' = IF tk = tn THEN "returned" ELSE "page"

\* The next call for the page at hand completes.
PageCall ==
  /\ tpc = "page"
  /\ LET call == PageCalls(variant, tk)[tstep]
     IN IF call = "analyze"
        THEN /\ tAnalyses' = Append(tAnalyses, tlog)
             /\ NextPage
        ELSE /\ tlog' = Append(tlog, call)
             /\ tstep' = tstep + 1
             /\ UNCHANGED <<tpc, tk, tAnalyses>>
  /\ UNCHANGED tn
  /\ UNCHANGED <<variant, notPageVars>>

\* The next call throws: testCurrentPage and the loop catch it and the page
\* gets a failed result; driver.get of the start page is outside any try.
PageCallThrows ==
  /\ tpc = "page"
  /\ LET call == PageCalls(variant, tk)[tstep]
     IN /\ call \in ThrowingCalls
        /\ IF call = "get" /\ tk = 1
           THEN /\ tpc' = "rejected"
                /\ UNCHANGED <<tk, tstep, tlog>>
           ELSE NextPage
  /\ UNCHANGED <<tn, tAnalyses>>
  /\ UNCHANGED <<variant, notPageVars>>

\* crawlAndTest is about to go to the crawl start page.
PageInit ==
  /\ variant \in Variants
  /\ CrawlIdle
  /\ VerifyIdle
  /\ ResolveIdle
  /\ WaitIdle
  /\ SmartIdle
  /\ ScoringIdle
  /\ LinksIdle
  /\ ScoreIdle
  /\ LoginIdle
  /\ RunIdle
  /\ MultiIdle
  /\ PwIdle
  /\ tpc = "page"
  /\ tn \in 1 .. MaxTestPages
  /\ tk = 1
  /\ tstep = 1
  /\ tlog = <<>>
  /\ tAnalyses = <<>>

PageNext == PageCall \/ PageCallThrows

SpecPage == PageInit /\ [][PageNext]_vars

(***************************************************************************)
(* getInternalLinks on absolute URLs.                                      *)
(***************************************************************************)

MaxHrefs == 2

\* How many links the local getInternalLinks returns at most.
LinkLimit == 20

\* Absolute URLs: port "" is the default port of the scheme.
SiteUrls ==
  [scheme : {"http:", "https:"}, host : {"ex.com", "cdn.ex.com"},
   port : {"", "8080"}, path : {"/a", "/a.pdf"}, q : {"", "?x=1"}]

\* An href the URL constructor rejects.
InvalidHref == [scheme |-> "", host |-> "", port |-> "", path |-> "", q |-> ""]

\* URL.origin: scheme, host and port.
Origin(u) == <<u.scheme, u.host, u.port>>

\* The local normalizedUrl: url.protocol + '//' + url.hostname + url.pathname.
NormalizedUrl(u) == [scheme |-> u.scheme, host |-> u.host, port |-> "",
                     path |-> u.path, q |-> ""]

\* The file extensions the local variant excludes.
NonPageUrl(u) == u.path = "/a.pdf"

\* The first n entries of a sequence.
Slice(s, n) == SubSeq(s, 1, IF Len(s) < n THEN Len(s) ELSE n)

\* The local getInternalLinks compares hostnames and pushes normalizedUrl.
RECURSIVE InternalLinksLocal(_, _)
InternalLinksLocal(base, hrefs) ==
  IF hrefs = <<>> THEN <<>>
  ELSE LET links == InternalLinksLocal(base, SubSeq(hrefs, 1, Len(hrefs) - 1))
           url == hrefs[Len(hrefs)]
           normalizedUrl == NormalizedUrl(url)
       IN IF /\ url # InvalidHref
             /\ url.host = base.host
             /\ ~\E i \in 1 .. Len(links) : links[i] = normalizedUrl
             /\ ~NonPageUrl(normalizedUrl)
          THEN Append(links, normalizedUrl)
          ELSE links

\* The BrowserStack getInternalLinks compares origins and pushes url.href.
InternalLinksBS(base, hrefs) ==
  LET SameOrigin(u) == u # InvalidHref /\ Origin(u) = Origin(base)
  IN Dedupe(SelectSeq(hrefs, SameOrigin))

\* getInternalLinks returns the links of the current page.
LinksReturn ==
  /\ kpc = "page"
  /\ klinks' = IF variant = "local"
               THEN Slice(InternalLinksLocal(kbase, khrefs), LinkLimit)
               ELSE InternalLinksBS(kbase, khrefs)
  /\ kpc' = "returned"
  /\ UNCHANGED <<kbase, khrefs>>
  /\ UNCHANGED <<variant, notLinksVars>>

\* findElements throws: the outer catch returns no link.
LinksFail ==
  /\ kpc = "page"
  /\ klinks' = <<>>
  /\ kpc' = "failed"
  /\ UNCHANGED <<kbase, khrefs>>
  /\ UNCHANGED <<variant, notLinksVars>>

\* crawlAndTest calls getInternalLinks(crawlStartUrl) on a page.
LinksInit ==
  /\ variant \in Variants
  /\ CrawlIdle
  /\ VerifyIdle
  /\ ResolveIdle
  /\ WaitIdle
  /\ SmartIdle
  /\ ScoringIdle
  /\ ScoreIdle
  /\ LoginIdle
  /\ RunIdle
  /\ MultiIdle
  /\ PwIdle
  /\ PageIdle
  /\ kpc = "page"
  /\ kbase \in {u \in SiteUrls : u.host = "ex.com" /\ u.path = "/a" /\ u.q = ""}
  /\ khrefs \in UNION {[1 .. n -> SiteUrls \cup {InvalidHref}] : n \in 0 .. MaxHrefs}
  /\ klinks = <<>>

LinksNext == LinksReturn \/ LinksFail

SpecLinks == LinksInit /\ [][LinksNext]_vars

SpecSessions == Init /\ [][SessionsNext]_vars

(***************************************************************************)
(* scoreElement, lookup by lookup.                                         *)
(***************************************************************************)

MaxPageInputs == 3

\* The lookups of scoreElement after the points for the selector, in order.
ScoringLookups == <<"position", "label", "placeholder", "size">>

\* What a lookup may answer: the label text and the placeholder are empty,
\* some other text, or a text naming the role; the element is large or small.
LookupAnswers(lookup) ==
  CASE lookup = "label" -> {"", "other", "names"}
    [] lookup = "placeholder" -> {"", "other", "names"}
    [] lookup = "size" -> {"big", "small"}
    [] OTHER -> {"listed"}

\* The points for the selector: 10 for being found, and more for a selector
\* with type=, name or id in it.
SelectorPoints(selector) ==
  10 + (IF selector \in SelectorsIncludingType THEN 20 ELSE 0)
     + (IF selector \in SelectorsIncludingName THEN 15 ELSE 0)
     + (IF selector \in SelectorsIncludingId THEN 15 ELSE 0)

\* allInputs.findIndex(async (el) => ...): the callback returns a promise,
\* which findIndex takes for a match, so the index is that of the first
\* input, or -1 on a page without inputs, wherever the candidate is.
FindIndex(inputs, position) == IF inputs > 0 THEN 0 ELSE 0 - 1

\* The points for the position.
PositionPoints(elementType, elementIndex) ==
  (IF elementType = "username" /\ elementIndex <= 1 THEN 10 ELSE 0)
  + (IF elementType = "password" /\ elementIndex <= 2 THEN 10 ELSE 0)

\* The points for the label, the placeholder and the size.
AnswerPoints(lookup, elementType, answer) ==
  CASE lookup = "label" ->
         IF answer = "" THEN 0 ELSE IF answer = "names" THEN 15 ELSE 5
    [] lookup = "placeholder" ->
         IF answer = "" THEN 0
         ELSE IF answer = "names" /\ elementType \in {"username", "password"}
         THEN 15 ELSE 5
    [] lookup = "size" -> IF answer = "big" THEN 5 ELSE 0
    [] OTHER -> 0

\* A scoreElement whose every catch block returns 1.
ScoreAfterThrowAlwaysOne(lookup, sc) == [returns |-> TRUE, score |-> 1]

\* What the catch blocks do with the score sc: the outer one, which the
\* listing of the inputs reaches, returns 1; those around the label, the
\* placeholder and the size go on with the score as it is.
ScoreAfterThrow(lookup, sc) ==
  IF lookup = "position" THEN [returns |-> TRUE, score |-> 1]
  ELSE [returns |-> FALSE, score |-> sc]

\* The lookup after the one at hand, or the return.
AfterLookup(k) == IF k = Len(ScoringLookups) THEN "returned" ELSE "lookup"

\* The lookup at hand completes with an answer.
ScoringLookup ==
  /\ epc = "lookup"
  /\ LET k == Len(eSeen) + 1
         lookup == ScoringLookups[k]
     IN \E answer \in LookupAnswers(lookup) :
          /\ eSeen' = Append(eSeen, answer)
          /\ eScore' =
               IF lookup = "position"
               THEN SelectorPoints(eSelector)
                    + PositionPoints(eType, FindIndex(eInputs, ePosition))
               ELSE eScore + AnswerPoints(lookup, eType, answer)
          /\ epc' = AfterLookup(k)
  /\ UNCHANGED <<eType, eSelector, eInputs, ePosition>>
  /\ UNCHANGED <<variant, notScoringVars>>

\* The lookup at hand throws.
ScoringLookupThrows ==
  /\ epc = "lookup"
  /\ LET k == Len(eSeen) + 1
         lookup == ScoringLookups[k]
         sc == IF lookup = "position" THEN 0 ELSE eScore
         r == ScoreAfterThrow(lookup, sc)
     IN /\ eSeen' = Append(eSeen, "throws")
        /\ eScore' = r.score
        /\ epc' = IF r.returns THEN "returned" ELSE AfterLookup(k)
  /\ UNCHANGED <<eType, eSelector, eInputs, ePosition>>
  /\ UNCHANGED <<variant, notScoringVars>>

\* The selectors scoreElement is called with for a role.
ScoredSelectors(elementType) ==
  LET strategies == getSmartStrategies(elementType)
  IN {strategies[k] : k \in 1 .. Len(strategies)} \ InvalidSelectors

\* Whether the candidates of a selector are input elements: those of the
\* user-name and password strategies all are, those of the button
\* strategies are not.
SelectsInputs(elementType, selector) ==
  \/ elementType \in {"username", "password"}
  \/ selector \in {"input[type=\"submit\"]", "form input[type=\"button\"]"}

\* findCandidateElements calls scoreElement for a validated candidate.
ScoringInit ==
  /\ variant \in Variants
  /\ CrawlIdle
  /\ VerifyIdle
  /\ ResolveIdle
  /\ WaitIdle
  /\ SmartIdle
  /\ ScoreIdle
  /\ LoginIdle
  /\ RunIdle
  /\ MultiIdle
  /\ PwIdle
  /\ PageIdle
  /\ LinksIdle
  /\ epc = "lookup"
  /\ eType \in Roles
  /\ eSelector \in ScoredSelectors(eType)
  /\ eInputs \in 0 .. MaxPageInputs
  /\ ePosition \in IF SelectsInputs(eType, eSelector)
                   THEN 0 .. (eInputs - 1) ELSE {0 - 1}
  /\ eSeen = <<>>
  /\ eScore = 0

ScoringNext == ScoringLookup \/ ScoringLookupThrows

SpecScoring == ScoringInit /\ [][ScoringNext]_vars

(***************************************************************************)
(* The smart tier: findCandidateElements and the choice of the best.       *)
(***************************************************************************)

MaxStrategies == 2
MaxSmartElems == 2

\* The scores scoreElement may give a candidate: low and high.
CandidateScores == {1, 45}

\* The sequence with candidate c put after every candidate of sorted whose
\* score is not lower, and before the others.
RECURSIVE InsertByScoreBeforeEqual(_, _)
InsertByScoreBeforeEqual(sorted, c) ==
  IF sorted = <<>> THEN <<c>>
  ELSE IF Head(sorted).score > c.score
  THEN <<Head(sorted)>> \o InsertByScoreBeforeEqual(Tail(sorted), c)
  ELSE <<c>> \o sorted

\* Array.prototype.sort is stable: a candidate goes after those of equal
\* score that were pushed before it.
RECURSIVE InsertByScore(_, _)
InsertByScore(sorted, c) ==
  IF sorted = <<>> THEN <<c>>
  ELSE IF Head(sorted).score >= c.score
  THEN <<Head(sorted)>> \o InsertByScore(Tail(sorted), c)
  ELSE <<c>> \o sorted

\* candidates.sort((a, b) => b.score - a.score)
RECURSIVE SortByScore(_)
SortByScore(candidates) ==
  IF candidates = <<>> THEN <<>>
  ELSE InsertByScore(SortByScore(SubSeq(candidates, 1, Len(candidates) - 1)),
                     candidates[Len(candidates)])

\* What findElements may do for a strategy on a page of e elements: throw,
\* or answer the elements the strategy selects.
FindOutcomes(e) ==
  {[throws |-> TRUE, elements |-> {}]}
  \cup [throws : {FALSE}, elements : SUBSET (1 .. e)]

\* The loop goes to the next element of the strategy, or to the next strategy.
SmartAdvance ==
  IF gi < Len(gvalid) /\ ~gfinds[gk].throws
  THEN gi' = gi + 1 /\ gk' = gk
  ELSE gi' = 1 /\ gk' = gk + 1

\* One turn of the loops of findCandidateElements: findElements throws and
\* the strategy is skipped, or the element at hand, when the strategy
\* selects it and it passes validation, is scored and pushed.
SmartVisit ==
  /\ gpc = "loop"
  /\ gk <= Len(gfinds)
  /\ IF /\ ~gfinds[gk].throws
        /\ gi <= Len(gvalid)
        /\ gi \in gfinds[gk].elements
        /\ gvalid[gi]
     THEN \E score \in CandidateScores :
            gcands' = Append(gcands, [element |-> gi, score |-> score, strategy |-> gk])
     ELSE gcands' = gcands
  /\ SmartAdvance
  /\ UNCHANGED <<gpc, gfinds, gvalid, gbest>>
  /\ UNCHANGED <<variant, notSmartVars>>

\* The candidates are sorted and findElementByMultipleStrategies returns
\* the first, or goes on to the XPath tier when there is none.
SmartReturn ==
  /\ gpc = "loop"
  /\ gk > Len(gfinds)
  /\ LET candidateElements == SortByScore(gcands)
     IN IF Len(candidateElements) > 0
        THEN gbest' = candidateElements[1].element /\ gpc' = "returned"
        ELSE gbest' = 0 /\ gpc' = "xpath"
  /\ UNCHANGED <<gfinds, gvalid, gk, gi, gcands>>
  /\ UNCHANGED <<variant, notSmartVars>>

\* findCandidateElements entered.
SmartInit ==
  /\ variant \in Variants
  /\ CrawlIdle
  /\ VerifyIdle
  /\ ResolveIdle
  /\ WaitIdle
  /\ ScoreIdle
  /\ LoginIdle
  /\ RunIdle
  /\ MultiIdle
  /\ PwIdle
  /\ PageIdle
  /\ LinksIdle
  /\ ScoringIdle
  /\ gpc = "loop"
  /\ \E s \in 1 .. MaxStrategies, e \in 0 .. MaxSmartElems :
       /\ gfinds \in [1 .. s -> FindOutcomes(e)]
       /\ gvalid \in [1 .. e -> BOOLEAN]
  /\ gk = 1
  /\ gi = 1
  /\ gcands = <<>>
  /\ gbest = 0

SmartNext == SmartVisit \/ SmartReturn

SpecSmart == SmartInit /\ [][SmartNext]_vars

(***************************************************************************)
(* The crawl scheduler.                                                    *)
(***************************************************************************)

\* C1: a completed crawl session has at most maxPages results, for every
\* page budget maxPages >= 0.
ResultsWithinBudget == pc = "done" => Len(results) <= maxPages

\* C2: with a login configuration, no crawl page is navigated to or tested
\* before login() has returned success, and a login that did not succeed makes
\* crawlAndTest fail with the login-failure error and without any result.
NoCrawlBeforeLoginSuccess ==
  /\ (loginConfig.configured /\ (tested # <<>> \/ results # <<>>))
        => (loginResult.returned /\ loginResult.success)
  /\ (loginResult.returned /\ ~loginResult.success)
        => /\ pc = "failed"
           /\ lastError = "Login failed - cannot proceed with crawling"
           /\ results = <<>>
           /\ tested = <<>>

\* C2, its case: a session that logged in and then tested crawl pages.
CrawledAfterLogin ==
  /\ loginConfig.configured
  /\ loginResult.success
  /\ pc = "done"
  /\ Len(results) >= 2

\* C3: a navigation or analysis failure on any page of the session, the crawl
\* start page included, is recorded as a failed result and never aborts the
\* session: every page navigated to has its result and the session goes on.
PageFailuresAreRecorded ==
  tested # <<>> => (pc # "failed" /\ Len(results) = Len(tested))

\* C4: no two entries of the result sequence have the same normalized URL.
NoDuplicateNormalizedResults ==
  \A i, j \in 1 .. Len(results) :
    i # j => Normalize(results[i].url) # Normalize(results[j].url)

\* C5: the URL the loop dequeues next is one of highest priority among all
\* queued URLs.
DequeuesHighestPriority ==
  (pc = "crawling" /\ LoopGuard)
    => \A i \in 1 .. Len(queue) :
         calculateUrlPriority(NextEntry(queue).url) >= calculateUrlPriority(queue[i].url)

\* C6: every frontier entry has depth <= 3, the start URL being at depth 0
\* and a link one deeper than the page it was discovered on.
FrontierDepthWithinLimit ==
  \A i \in 1 .. Len(queue) : queue[i].depth <= MaxDepth

(***************************************************************************)
(* The login verifier.                                                     *)
(***************************************************************************)

\* The URL-change signal of a verification, as either variant evaluated it.
VerifiedStates == {"VerifiedSuccess", "VerifiedFailure"}

\* C7: in both variants, whenever the URL-change signal passes, the verdict
\* is success, whatever the other signals are.
UrlSignalSuffices ==
  (vpc \in VerifiedStates /\ vsignals.url) => verdict

\* C8: when a password input is still present after submit and neither the
\* URL-change signal nor the content signal passed, the verdict is failure.
PersistentPasswordFails ==
  (/\ vpc \in VerifiedStates
   /\ "password-input" \in vpage.elements
   /\ ~vsignals.url
   /\ ~vsignals.content) => ~verdict

\* C19: when the URL after submit is the login URL and the DOM-indicator
\* signal is the only positive signal that passed, the verdict is failure:
\* a success needs another passing signal.
DomSignalAloneFails ==
  (/\ vpc \in VerifiedStates
   /\ vpage.url = vconfig.loginUrl
   /\ ~vsignals.url
   /\ vsignals.dom
   /\ ~vsignals.content
   /\ ~vsignals.formAbsent) => ~verdict

\* C19 witness: a verification of a page still at the login URL whose one
\* logged-in indicator is a .user-avatar element ended in failure, the
\* DOM-indicator signal having passed and no error message being shown.
AvatarAloneWasRejected ==
  /\ vpc = "VerifiedFailure"
  /\ variant = "local"
  /\ vpage.url = vconfig.loginUrl
  /\ vpage.elements \cap LoggedInIndicatorKinds = {"user-avatar"}
  /\ vsignals.dom
  /\ vsignals.noErrors
  /\ ~vsignals.url
  /\ ~vsignals.content
  /\ ~vsignals.formAbsent

(***************************************************************************)
(* The element resolver.                                                   *)
(***************************************************************************)

\* The tiers a resolution runs when none of them hits.
ExpectedTiers ==
  IF providedSelectors = <<>> THEN SubSeq(Tiers, 2, 4) ELSE Tiers

\* C9: the tiers are consulted in the order user-provided selectors, smart
\* CSS ranking, XPath heuristics, generic fallback; a tier is consulted only
\* when every tier before it produced no validated element, and the element
\* returned is the hit of the last tier consulted.
TiersConsultedInOrder ==
  /\ Len(consulted) <= Len(ExpectedTiers)
  /\ \A k \in 1 .. Len(consulted) : consulted[k].tier = ExpectedTiers[k]
  /\ \A k \in 1 .. Len(consulted) - 1 : ~consulted[k].hit
  /\ rpc = "returned" => (found # 0 /\ consulted[Len(consulted)].hit)

\* C9 witness: the generic fallback returned the element after the three
\* tiers before it had been consulted, in order, without a hit.
GenericTierReturned ==
  /\ rpc = "returned"
  /\ Len(consulted) = 4
  /\ consulted[4].tier = "generic"
  /\ ~lookupFailed

\* C10: a lookup that throws never ends the resolution; the only error is
\* the not-found error, raised after every tier has run without a validated
\* element.
OnlyExhaustionIsAnError ==
  /\ rerror \in {"none", NotFoundError}
  /\ rpc = "threw" =>
       /\ rerror = NotFoundError
       /\ Len(consulted) = Len(ExpectedTiers)
       /\ \A k \in 1 .. Len(consulted) : ~consulted[k].hit

\* C10 witness: a lookup threw in some tier and the resolution went on to
\* return an element found by a later tier.
ReturnedAfterLookupFailure ==
  /\ rpc = "returned"
  /\ lookupFailed
  /\ Len(consulted) >= 2
  /\ dom[found].state = "ok"

\* The resolution has ended, and no lookup threw on the way.
ResolvedUndisturbed == rpc \in {"returned", "threw"} /\ ~lookupFailed

\* C11: with no user-provided selector, on every page that holds a
\* displayed, enabled input[type="email"], resolving the user name returns
\* an input[type="email"], whatever other inputs the page holds.
EmailInputIsReturned ==
  (/\ role = "username"
   /\ providedSelectors = <<>>
   /\ ResolvedUndisturbed
   /\ \E i \in 1 .. Len(dom) : dom[i] = [kind |-> "email", state |-> "ok"])
  => (rpc = "returned" /\ dom[found].kind = "email")

\* C12: resolving the user name never ends in the not-found error on a page
\* that holds a displayed, enabled user-name input, and a page whose only
\* input is an <input> without attributes has it returned by the generic
\* fallback tier.
UsernameAlwaysResolved ==
  (role = "username" /\ ResolvedUndisturbed)
  => /\ (\E i \in 1 .. Len(dom) :
           dom[i].kind \in UsernameFieldKinds /\ dom[i].state = "ok")
        => rpc = "returned"
     /\ dom = <<[kind |-> "plain", state |-> "ok"]>>
        => consulted[Len(consulted)].tier = "generic"

(***************************************************************************)
(* The stability waiter.                                                   *)
(***************************************************************************)

\* C13: waitForDynamicContent never raises to its caller, makes a bounded
\* number of polls and returns, whatever the page answers and however often
\* the script call fails.
WaitAlwaysReturns ==
  /\ [](wpc # "raised" /\ polls <= maxWaitTime)
  /\ <>(wpc = "returned")

\* C13 witness: the BrowserStack waiter returned on its timeout, having
\* polled the page as often as the timeout allows.
WaitTimedOut ==
  variant = "bs" /\ wpc = "returned" /\ polls = maxWaitTime

(***************************************************************************)
(* The crawl start URL.                                                    *)
(***************************************************************************)

\* Whether the login configuration names a post-login URL of its own.
ExplicitPostLoginUrl ==
  loginConfig.postLoginUrl # NoUrl /\ loginConfig.postLoginUrl # DefaultPostLoginUrl

\* C14: after a successful login the first page tested is the explicit
\* post-login URL when one is configured, otherwise the URL the browser was
\* at when the verification ended; without a login configuration no login
\* runs and the first page tested is startUrl.
CrawlStartsWhereLoginEnded ==
  tested # <<>> =>
    IF loginConfig.configured
    THEN tested[1] = IF ExplicitPostLoginUrl THEN loginConfig.postLoginUrl
                     ELSE verifiedUrl
    ELSE loginResult = NoResult /\ tested[1] = startUrl

(***************************************************************************)
(* The budget on a page with many links.                                   *)
(***************************************************************************)

\* The links of the start page that wait in the frontier, never visited.
StartLinksLeft ==
  {i \in 1 .. Len(queue) : queue[i].depth = 1 /\ queue[i].url \notin visited}

CrawlEnded == pc \in {"done", "failed"}

ResultsInCrawlOrder ==
  /\ Len(results) = Len(tested)
  /\ \A i \in 1 .. Len(results) : results[i].url \in Land(tested[i], TRUE)

CrawlTerminates ==
  /\ <>CrawlEnded
  /\ [](pc = "done" =>
         /\ Len(results) >= maxPages \/ queue = <<>>
         /\ ResultsInCrawlOrder)

\* C16 witness: a session returned two results or more with links still
\* waiting: the budget ended the loop.
ReturnedOnBudget ==
  /\ pc = "done"
  /\ Len(results) >= 2
  /\ Len(results) = maxPages
  /\ queue # <<>>

(***************************************************************************)
(* The driver operations in flight.                                        *)
(***************************************************************************)

\* C17: at most one driver operation is in flight at any time: every driver
\* call made while candidates are scored has completed before the next one
\* is issued.
OneDriverOperationInFlight == Cardinality(inFlight) <= 1

(***************************************************************************)
(* The errors of login.                                                    *)
(***************************************************************************)

\* Whether an error names a role.
NamesRole(error, r) == \E i \in 1 .. Len(error.message) : error.message[i] = r

\* C18: when every resolution strategy is exhausted for a role during login,
\* the login fails, and what the caller of login() and of crawlAndTest gets
\* is a failure that carries the name of that role.
ExhaustionNamesTheRole ==
  \A r \in Roles :
    caught = RoleNotFoundError(r) =>
      /\ lresult.returned => ~lresult.success
      /\ lpc = "rejected" => NamesRole(callerError, r)

(***************************************************************************)
(* The main execution functions.                                           *)
(***************************************************************************)

\* C20: each main execution function calls tester.close() before it returns
\* or rejects, whichever path it took, and close() quits the driver session
\* when one was opened.
SessionOpened == driverSet \/ quitCalls > 0

ClosedBeforeTheEnd ==
  ended # "none" =>
    /\ closeCalls = 1
    /\ SessionOpened => quitCalls = 1

\* C20 witness: a crawl threw with the session open, and the function
\* rejected after close() had quit the driver.
RejectedAfterQuit ==
  /\ ended = "rejected"
  /\ pending = "crawl"
  /\ closeCalls = 1
  /\ quitCalls = 1

(***************************************************************************)
(* testMultipleUrls.                                                       *)
(***************************************************************************)

\* C21: testMultipleUrls returns one result per input URL, in input order;
\* a URL whose test failed has a result with success = false and an error
\* message, and the URLs after it are tested all the same.
OneResultPerUrl ==
  /\ Len(mResults) = Len(mTested)
  /\ \A i \in 1 .. Len(mResults) :
       /\ mResults[i].url = mUrls[i]
       /\ mTested[i].url = mUrls[i]
       /\ mTested[i].outcome # "ok" =>
            (~mResults[i].success /\ mResults[i].error # "undefined")
  /\ mpc = "returned" => Len(mResults) = Len(mUrls)

\* C21 witness: the test of the first of three URLs failed, and the call
\* returned three results, the last one a success.
ReturnedAfterFailedUrl ==
  /\ mpc = "returned"
  /\ Len(mUrls) = 3
  /\ mTested[1].outcome # "ok"
  /\ ~mResults[1].success
  /\ mResults[3].success

(***************************************************************************)
(* The Playwright crawl of main.ts.                                        *)
(***************************************************************************)

\* The pages reachable by links from the crawl start URL.
RECURSIVE PwClosure(_, _)
PwClosure(site, S) ==
  LET T == S \cup UNION {site[p] : p \in S}
  IN IF T = S THEN S ELSE PwClosure(site, T)

PwReachable == PwClosure(psite, {PwStart})

PwTested == {presults[i].url : i \in 1 .. Len(presults)}

\* C22: on a finite same-origin site the crawl of main.ts eventually has
\* tested every page reachable by links from the start URL and has returned,
\* and it tests no URL twice.
PwTestsEveryPageOnce ==
  /\ <>(ppc = "returned" /\ PwTested = PwReachable)
  /\ [](\A i, j \in 1 .. Len(presults) : presults[i].url = presults[j].url => i = j)

(***************************************************************************)
(* The stability window.                                                   *)
(***************************************************************************)

\* C23: the waiter reports the page stable only at the end of a window of
\* at least stabilityWindow in which no poll saw a loading indicator or a
\* ready-state other than complete: such a poll restarts the window.
StableOnlyAfterCleanWindow ==
  wreport = "stable" =>
    /\ stabilityStart # 0
    /\ wclock - stabilityStart >= stabilityWindow
    /\ ~windowDirty

(***************************************************************************)
(* The stability wait and the analysis.                                    *)
(***************************************************************************)

\* C24: for every page the crawl tests, in both variants, the stability
\* wait has run after the navigation and completed when the accessibility
\* analysis is invoked.
StableBeforeAnalysis ==
  \A i \in 1 .. Len(tAnalyses) :
    \E g, w \in 1 .. Len(tAnalyses[i]) :
      /\ tAnalyses[i][g] = "get"
      /\ tAnalyses[i][w] = "waitForDynamicContent"
      /\ g < w

(***************************************************************************)
(* What the frontier holds.                                                *)
(***************************************************************************)

\* C25 as stated: at every point of a crawl session the frontier contains
\* no URL twice and no URL that is in the visited set.
FrontierFreshAndDistinct ==
  /\ \A i, j \in 1 .. Len(queue) : queue[i].url = queue[j].url => i = j
  /\ \A i \in 1 .. Len(queue) : queue[i].url \notin visited

\* The frontier q2 is the frontier q1 without its first k entries, followed
\* by entries whose URLs are outside vis.
ShiftedAndExtended(q1, q2, k, vis) ==
  /\ k <= Len(q1)
  /\ Len(q2) >= Len(q1) - k
  /\ \A i \in 1 .. Len(q1) - k : q2[i] = q1[i + k]
  /\ \A i \in Len(q1) - k + 1 .. Len(q2) : q2[i].url \notin vis

\* C25, amended: a discovered link is enqueued only if it is not visited at
\* that moment: every step of a crawl session leaves the frontier as it
\* is, or takes its head away and appends URLs that are not in the visited
\* set.
EnqueuedOnlyUnvisited ==
  [][\E k \in {0, 1} : ShiftedAndExtended(queue, queue', k, visited')]_vars

\* A crawl whose frontier holds a URL that has been visited since it was
\* enqueued: it was enqueued twice, and one of the two entries was tested.
FrontierHoldsVisitedUrl ==
  /\ pc = "crawling"
  /\ \E i \in 1 .. Len(queue) :
       /\ queue[i].url \in visited
       /\ \E j \in 1 .. Len(tested) : tested[j] = queue[i].url

(***************************************************************************)
(* How often a URL is tested.                                              *)
(***************************************************************************)

\* C26: within one crawlAndTest session no URL is navigated to and tested
\* more than once, the crawl start URL included; a page whose test failed
\* is not navigated to again.
NoUrlTestedTwice ==
  \A i, j \in 1 .. Len(tested) : tested[i] = tested[j] => i = j

(***************************************************************************)
(* The links of a page.                                                    *)
(***************************************************************************)

\* C27: every URL that getInternalLinks returns has the origin (scheme,
\* host and port) of the crawl start URL, and it is the URL of a link of
\* the page.
LinksSameOriginSamePage ==
  \A i \in 1 .. Len(klinks) :
    /\ Origin(klinks[i]) = Origin(kbase)
    /\ \E j \in 1 .. Len(khrefs) : khrefs[j] = klinks[i]

(***************************************************************************)
(* The URL-change signal on a changed path.                                *)
(***************************************************************************)

\* C28: in verifyUrlChange, when the post-submit URL stays on the login
\* domain, matches no supplied post-login URL and no authenticated-area
\* pattern and carries no success token, a changed path makes the signal
\* pass only if the new path contains none of the login-indicative
\* substrings.
ChangedPathPassesOnlyOffLogin ==
  (/\ variant = "bs"
   /\ vpc \in {"VerifiedSuccess", "VerifiedFailure"}
   /\ vpage.url.domain = vconfig.loginUrl.domain
   /\ ~(vconfig.postLoginUrl # VNoUrl /\ UrlIncludesUrl(vpage.url, vconfig.postLoginUrl))
   /\ ~\E pattern \in postLoginPatterns : Includes(vpage.url.path, pattern)
   /\ ~\E w \in SuccessWords : UrlIncludesWord(vpage.url, w)
   /\ vpage.url.path # vconfig.loginUrl.path
   /\ vsignals.url)
  => \A w \in LoginWords : ~Includes(vpage.url.path, w)

(***************************************************************************)
(* The thresholds of the two variants.                                     *)
(***************************************************************************)

\* The URL-based rule decided the verdict: the URL verification passed
\* (BrowserStack), or the URL holds the supplied post-login URL (local).
UrlRuleDecided ==
  IF variant = "bs" THEN vsignals.url
  ELSE /\ vconfig.postLoginUrl # VNoUrl
       /\ UrlIncludesUrl(vpage.url, vconfig.postLoginUrl)

\* How many of the DOM-indicator, content and form-absence signals passed.
PassedOfThree ==
  (IF vsignals.dom THEN 1 ELSE 0) + (IF vsignals.content THEN 1 ELSE 0)
  + (IF vsignals.formAbsent THEN 1 ELSE 0)

\* The weighted sum of the five signals, of 100 points.
WeightedSum ==
  (IF vsignals.url THEN 30 ELSE 0) + (IF vsignals.content THEN 25 ELSE 0)
  + (IF vsignals.noErrors THEN 20 ELSE 0) + (IF vsignals.dom THEN 15 ELSE 0)
  + (IF vsignals.formAbsent THEN 10 ELSE 0)

\* C29: when the URL-based rule does not decide the verdict, the
\* BrowserStack variant declares success exactly when at least 2 of the 3
\* signals DOM-indicator, content and form-absence pass, and the local
\* variant exactly when the weighted sum of its five signals is at least 60.
ThresholdDecidesVerdict ==
  (vpc \in {"VerifiedSuccess", "VerifiedFailure"} /\ ~UrlRuleDecided)
  => /\ variant = "bs" => (verdict <=> PassedOfThree >= 2)
     /\ variant = "local" => (verdict <=> WeightedSum >= 60)
     /\ (vpc = "VerifiedSuccess") <=> verdict

\* The local variant declared success on exactly 60 points, without a URL
\* change: content 25, no errors 20, logged-in indicators 15.
SucceededOnSixtyPoints ==
  /\ variant = "local"
  /\ vpc = "VerifiedSuccess"
  /\ ~UrlRuleDecided
  /\ WeightedSum = 60
  /\ ~vsignals.url

(***************************************************************************)
(* The visited set and the result sequence over a session.                 *)
(***************************************************************************)

\* A step of a session: the visited set keeps its URLs, the result sequence
\* keeps its results where they are and gets at most one more at its end,
\* and that only when a page was navigated to.
GrowsOnly ==
  /\ visited \subseteq visited'
  /\ Len(results) <= Len(results')
  /\ Len(results') <= Len(results) + 1
  /\ \A i \in 1 .. Len(results) : results'[i] = results[i]
  /\ Len(results') = Len(results) + 1 => Len(tested') = Len(tested) + 1

\* C30: during one crawl session the visited set only grows and the result
\* sequence only grows by appending at the end in crawl order; a new
\* crawlAndTest call starts from an empty visited set and an empty result
\* sequence.
VisitedAndResultsOnlyGrow ==
  /\ [](pc = "idle" => visited = {} /\ results = <<>>)
  /\ [][IF pc' = "idle" /\ pc # "idle"
        THEN visited' = {} /\ results' = <<>>
        ELSE GrowsOnly]_vars

\* A session that returned two results and visited two URLs.
ReturnedTwoResults ==
  /\ pc = "done"
  /\ Len(results) >= 2
  /\ Cardinality(visited) >= 2

(***************************************************************************)
(* The order of the steps of login().                                      *)
(***************************************************************************)

\* The steps of login() that have completed.
StepsDone ==
  SubSeq(LoginSteps, 1, IF lresult.returned /\ caught = NoError THEN lstep ELSE lstep - 1)

\* The step at position j typed into the element resolved for a field.
TypedAt(done, field, j) ==
  /\ done[j] = "sendKeys"
  /\ \E i \in 1 .. j - 1 :
       /\ done[i] = field
       /\ \A m \in i + 1 .. j - 1 : done[m] \notin Roles

\* C31: login() navigates, waits for stability, fills the username, fills
\* the password, clicks submit, waits and verifies, in that order: the
\* password is never typed unless the username field was resolved and
\* filled, submit is never clicked unless both fields were filled, and
\* the verdict is never computed unless submit was clicked.
LoginStepsInOrder ==
  LET done == StepsDone
      n == Len(done)
  IN /\ \A u \in 1 .. n : done[u] = "username" =>
            \E g, w \in 1 .. u - 1 :
              g < w /\ done[g] = "get" /\ done[w] = "waitForDynamicContent"
     /\ \A p \in 1 .. n : TypedAt(done, "password", p) =>
            \E u \in 1 .. p - 1 : TypedAt(done, "username", u)
     /\ \A c \in 1 .. n : done[c] = "click" =>
            /\ \E u, p \in 1 .. c - 1 :
                  /\ u < p
                  /\ TypedAt(done, "username", u)
                  /\ TypedAt(done, "password", p)
            /\ \E b \in 1 .. c - 1 :
                  done[b] = "submit" /\ \A m \in b + 1 .. c - 1 : done[m] \notin Roles
     /\ \A v \in 1 .. n : done[v] = "verifyLoginSuccess" =>
            \E c, z \in 1 .. v - 1 : c < z /\ done[c] = "click" /\ done[z] = "sleep"
     /\ (lresult.returned /\ caught = NoError) => done[n] = "verifyLoginSuccess"

\* login() returned a verdict of success, every step having completed.
LoginVerdictReached ==
  /\ lpc = "returned"
  /\ caught = NoError
  /\ lresult.success
  /\ Len(StepsDone) = Len(LoginSteps)

(***************************************************************************)
(* Exceptions while scoring.                                               *)
(***************************************************************************)

\* Whether a lookup of scoreElement threw.
Threw(lookup) ==
  \E k \in 1 .. Len(eSeen) : ScoringLookups[k] = lookup /\ eSeen[k] = "throws"

PointsOfAnswers ==
  LET Points(k) == IF eSeen[k] = "throws" THEN 0
                   ELSE AnswerPoints(ScoringLookups[k], eType, eSeen[k])
  IN Points(2) + Points(3) + Points(4)

SmartReturnsBestFirst ==
  /\ gpc = "returned" =>
       \E n \in 1 .. Len(gcands) :
         /\ gcands[n].element = gbest
         /\ \A m \in 1 .. Len(gcands) : gcands[m].score <= gcands[n].score
         /\ \A m \in 1 .. n - 1 : gcands[m].score < gcands[n].score
  /\ gpc = "xpath" => gcands = <<>>
  /\ \A m, n \in 1 .. Len(gcands) :
       m < n => \/ gcands[m].strategy < gcands[n].strategy
                \/ /\ gcands[m].strategy = gcands[n].strategy
                   /\ gcands[m].element < gcands[n].element
  /\ \A n \in 1 .. Len(gcands) :
       gvalid[gcands[n].element] /\ gcands[n].element \in gfinds[gcands[n].strategy].elements

\* The smart tier returned the earlier of two candidates that share the
\* highest score, a candidate of lower score having been pushed before.
SmartTieBroken ==
  /\ gpc = "returned"
  /\ \E l, m, n \in 1 .. Len(gcands) :
       /\ l < m /\ m < n
       /\ gcands[l].score < gcands[m].score
       /\ gcands[m].score = gcands[n].score
       /\ gcands[m].element # gcands[n].element
       /\ gbest = gcands[m].element
       /\ \A j \in 1 .. Len(gcands) : gcands[j].score <= gcands[m].score

(***************************************************************************)
(* The positional bonus.                                                   *)
(***************************************************************************)

\* The points scoreElement gave for the position.
PositionBonus == eScore - SelectorPoints(eSelector) - PointsOfAnswers

\* C34: scoreElement adds the +10 positional bonus only to a candidate that
\* is among the first inputs of the page (the first two for a user name,
\* the first three for a password); a candidate located later among the
\* page's inputs does not receive it.
PositionBonusOnlyForFirstInputs ==
  (epc = "returned" /\ ~Threw("position") /\ PositionBonus = 10)
  => /\ ePosition >= 0
     /\ ePosition <= (IF eType = "username" THEN 1 ELSE 2)

\* C35: every element the resolver returns, whichever tier produced it, was
\* seen displayed and enabled by validateElement; an element whose check
\* throws is never returned.
ReturnedElementsDisplayedAndEnabled ==
  rpc = "returned" => dom[found].state = "ok"

\* C36: at every iteration boundary of the crawl loop, and when the loop has
\* ended, there are as many recorded results as visited URLs.
ResultsCountVisited ==
  pc \in {"crawling", "done"} => Len(results) = Cardinality(visited)

\* The loop has taken a URL whose test succeeded and one whose navigation or
\* test threw, after the start page.
LoopRecordedSuccessAndFailure ==
  /\ pc = "crawling"
  /\ Len(results) = Cardinality(visited)
  /\ \E i, j \in 2 .. Len(results) :
       /\ results[i].success
       /\ results[j] = FailedResult(tested[j])
       /\ tested[j] \in visited

\* C37: a driver error raised while a verification signal is evaluated never
\* makes the signal count as passed, nor the verdict a success: every signal
\* that passed, and a verdict of success, is one the same page yields when no
\* driver call throws.
DriverErrorNeverPasses ==
  vpc \in {"VerifiedSuccess", "VerifiedFailure"} =>
    LET calm == verifyLoginSuccess(variant, vconfig, vpage, {})
    IN /\ \A k \in DOMAIN vsignals : vsignals[k] => calm.signals[k]
       /\ verdict => calm.verdict

\* C38: when the URL read after submit is the login URL itself and no
\* post-login URL is configured, the URL-change signal of verifyUrlChange
\* does not pass, whatever the path of the login URL.
UnchangedUrlFailsUrlSignal ==
  /\ variant = "bs"
  /\ vpc \in {"VerifiedSuccess", "VerifiedFailure"}
  /\ vpage.url = vconfig.loginUrl
  /\ vconfig.postLoginUrl = VNoUrl
  => ~vsignals.url

\* The local verification ran its five checks and checkForLoginErrors
\* answered that the page shows an error: the post-login-URL short-circuit
\* did not apply.
LoginErrorsDetected ==
  /\ variant = "local"
  /\ vpc \in {"VerifiedSuccess", "VerifiedFailure"}
  /\ ~(vconfig.postLoginUrl # VNoUrl /\ UrlIncludesUrl(vpage.url, vconfig.postLoginUrl))
  /\ "error-message" \in vpage.elements
  /\ ~vsignals.noErrors

\* C39 as stated: in the local variant, when checkForLoginErrors detects an
\* error after submit and the post-login-URL short-circuit does not apply,
\* the verdict is not success.
DetectedErrorsForbidSuccess ==
  LoginErrorsDetected => ~verdict

\* C39, amended: when checkForLoginErrors detects an error, the verdict is
\* success only if the URL-change and the content signals both pass and so
\* does the logged-in-indicator or the form-absent signal.
DetectedErrorsCostTheirPoints ==
  LoginErrorsDetected /\ verdict =>
    /\ vsignals.url
    /\ vsignals.content
    /\ vsignals.dom \/ vsignals.formAbsent

\* A login declared successful although an error message was detected.
SucceededDespiteDetectedErrors ==
  /\ LoginErrorsDetected
  /\ verdict
  /\ vpc = "VerifiedSuccess"

\* C40: whenever login() returns success it returns a currentUrl, and that
\* currentUrl is the URL verifyLoginSuccess read and judged, even when the
\* page navigates between the URL read of login() and that of the verifier.
ReturnedUrlIsVerifiedUrl ==
  loginResult.returned /\ loginResult.success =>
    /\ loginResult.currentUrl # NoUrl
    /\ loginResult.currentUrl = verifiedUrl

====
